---- MODULE Spec2Model ----
(***************************************************************************)
(* Geometry workers of the Cesium build: the batch dispatcher              *)
(* (Workers/createGeometry.js) and the shape descriptions it dispatches to *)
(* (createCircleOutlineGeometry.js, createSphereOutlineGeometry.js, ...).  *)
(*                                                                         *)
(* JavaScript arrays are 0-based; the sequences below are 1-based, so the  *)
(* source's index i is the model's i + 1.  A JavaScript value that may be  *)
(* undefined is modelled as a sequence of length at most one: None is      *)
(* undefined, Some(v) is v.                                                *)
(***************************************************************************)
EXTENDS Integers, Sequences, FiniteSets, TLC

\* ------------------------------------------------------------------ bounds
\* Messages the worker receives in one lifetime.
MaxRequests == 2
\* Sub-tasks over all the batches of one lifetime.
MaxSubTasks == 2
\* Calls a caller's script makes on one shape module.
MaxCalls == 4

\* ----------------------------------------------------------- option values
None == << >>
Some(v) == << v >>
\* when.defined(value): value !== undefined && value !== null
defined(v) == v # None
\* when.defaultValue(a, b)
defaultValue(a, b) == IF defined(a) THEN a ELSE b

\* ============================================================ dispatcher
\* The worker modules a sub-task may name.  The last one has no file.
ResolvableModules == {"createCircleOutlineGeometry", "createSphereOutlineGeometry"}
ModuleNames == ResolvableModules \cup {"createBogusGeometry"}

\* String(f) of a creation function f: the property key JavaScript derives when
\* a function is used as an object key.
FunctionToString(f) ==
  CASE f = "createCircleOutlineGeometry" ->
         "function createCircleOutlineGeometry(circleGeometry, offset) {...}"
    [] f = "createSphereOutlineGeometry" ->
         "function createSphereOutlineGeometry(sphereGeometry, offset) {...}"
    [] OTHER -> "function () {...}"

\* String(undefined), the key of moduleCache[undefined].
UndefinedKey == "undefined"

\* The loader's three behaviours: CommonJS require (typeof exports === "object"),
\* AMD require whose callback runs before require returns (web workers), and
\* AMD require whose callback runs later.
Environments == {"commonjs", "amd_sync", "amd_async"}

\* The geometry payloads of a sub-task: a packed array or a created geometry.
Payloads == {"gA", "gB"}

\* The sub-tasks a batch is made of: {moduleName, geometry, offset}.
SubTasks ==
  { [moduleName |-> None, geometry |-> "gA", offset |-> None],
    [moduleName |-> Some("createCircleOutlineGeometry"), geometry |-> "gA", offset |-> Some(0)],
    [moduleName |-> Some("createSphereOutlineGeometry"), geometry |-> "gB", offset |-> Some(1)],
    [moduleName |-> Some("createCircleOutlineGeometry"), geometry |-> "gB", offset |-> None],
    [moduleName |-> Some("createBogusGeometry"), geometry |-> "gA", offset |-> Some(0)] }

\* What one call createFunction(geometry, offset) does: returns a geometry,
\* returns undefined (degenerate description), returns a pending promise, or
\* throws.
Outcomes == {"geometry", "undefined", "promise", "throw"}

\* Values that fill a result slot.
UndefinedValue == [kind |-> "undefined", by |-> "", geometry |-> "", offset |-> None]
PassedGeometry(g) == [kind |-> "passed", by |-> "", geometry |-> g, offset |-> None]
CreatedGeometry(f, g, off) == [kind |-> "created", by |-> f, geometry |-> g, offset |-> off]

\* Conditions.
CreationError(i) == [kind |-> "creation", task |-> i]
ModuleError(i) == [kind |-> "module", task |-> i]
TypeError(i) == [kind |-> "TypeError", task |-> i]

\* The worker: the loader's behaviour, the module cache, the number of times
\* the loader was asked for each module, the AMD callbacks not yet run, and
\* the messages received with the state of their batches.
VARIABLES env, moduleCache, loadCount, amdPending, requests

\* A shape module and its caller: the module, the caller's two description
\* variables, the packed array, the module's scratch state, the description
\* packed last into each slice of the array, the last call made, and for each
\* of the caller's variables whether its description was returned by unpack
\* and the scratch objects of the module the description refers to.
VARIABLES shape, descs, callerArray, moduleScratch, packedFrom, last, held

workerVars == << env, moduleCache, loadCount, amdPending, requests >>
shapeVars == << shape, descs, callerArray, moduleScratch, packedFrom, last, held >>
vars == << workerVars, shapeVars >>

\* obj[key] = value
Put(obj, key, value) ==
  [k \in DOMAIN obj \cup {key} |-> IF k = key THEN value ELSE obj[k]]

\* obj[key], undefined when the key is absent
Get(obj, key) == IF key \in DOMAIN obj THEN Some(obj[key]) ELSE None

EmptyObject == [k \in {} |-> ""]

\* require("Workers/" + moduleName) and require(["Workers/" + moduleName], cb):
\* what the loader hands over for a module name.
Require(moduleName) ==
  IF moduleName \in ResolvableModules THEN Some(moduleName) ELSE None

\* getModule with a fallback: a module the loader cannot find resolves to an
\* empty creation function instead of failing.
getModule_fallback(e, w, moduleName) ==
  LET counted == [w EXCEPT !.loads[moduleName] = @ + 1]
      f == defaultValue(Require(moduleName), Some("noop"))
  IN  [w |-> [counted EXCEPT !.cache = Put(@, UndefinedKey, f[1])],
       module |-> f, threw |-> FALSE]

\* getModule(moduleName) on the worker state w = [cache, loads, pending]:
\* the state after the call, the function returned (module) and whether the
\* call threw.
getModule(e, w, moduleName) ==
  LET module == Get(w.cache, moduleName)
      counted == [w EXCEPT !.loads[moduleName] = @ + 1]
      f == Require(moduleName)
  IN  IF defined(module)
        THEN [w |-> w, module |-> module, threw |-> FALSE]
      ELSE IF ~defined(f) /\ e # "amd_async"
        \* the loader finds no such module
        THEN [w |-> counted, module |-> None, threw |-> TRUE]
      ELSE IF e = "commonjs"
        \* moduleCache[module] = module = require(...): the key is evaluated
        \* first, while module is still undefined
        THEN [w |-> [counted EXCEPT !.cache = Put(@, UndefinedKey, f[1])],
              module |-> f, threw |-> FALSE]
      ELSE IF e = "amd_sync"
        \* module = f; moduleCache[module] = f: the key is the function
        THEN [w |-> [counted EXCEPT !.cache = Put(@, FunctionToString(f[1]), f[1])],
              module |-> f, threw |-> FALSE]
        \* the callback has not run when getModule returns
        ELSE [w |-> [counted EXCEPT !.pending = @ \cup {moduleName}],
              module |-> None, threw |-> FALSE]

\* One result slot of resultsOrPromises: a value, a promise (pending, then
\* fulfilled or rejected), or a hole the loop never reached.
ValueSlot(v) == [state |-> "value", value |-> v, error |-> None]
PendingSlot(f, g, off) ==
  [state |-> "pending", value |-> CreatedGeometry(f, g, off), error |-> None]
HoleSlot == [state |-> "hole", value |-> UndefinedValue, error |-> None]

\* The call wrapped in try/catch: a creation function that throws leaves an
\* undefined result.
callCreateFunction_swallow(acc, got, task, i, out) ==
  LET call == [task |-> i, by |-> got.module, geometry |-> task.geometry,
               offset |-> task.offset]
  IN  IF ~defined(got.module)
        THEN [acc EXCEPT !.w = got.w, !.threw = Some(TypeError(i))]
      ELSE [acc EXCEPT
              !.w = got.w,
              !.calls = Append(@, call),
              !.slots[i] =
                CASE out = "geometry" ->
                       ValueSlot(CreatedGeometry(got.module[1], task.geometry, task.offset))
                  [] out \in {"undefined", "throw"} -> ValueSlot(UndefinedValue)
                  [] OTHER -> PendingSlot(got.module[1], task.geometry, task.offset)]

\* The call treating an undefined result as a failure of the creation.
callCreateFunction_failUndefined(acc, got, task, i, out) ==
  LET call == [task |-> i, by |-> got.module, geometry |-> task.geometry,
               offset |-> task.offset]
  IN  IF ~defined(got.module)
        THEN [acc EXCEPT !.w = got.w, !.threw = Some(TypeError(i))]
      ELSE IF out \in {"throw", "undefined"}
        THEN [acc EXCEPT !.w = got.w, !.calls = Append(@, call),
                         !.threw = Some(CreationError(i))]
      ELSE [acc EXCEPT
              !.w = got.w,
              !.calls = Append(@, call),
              !.slots[i] =
                CASE out = "geometry" ->
                       ValueSlot(CreatedGeometry(got.module[1], task.geometry, task.offset))
                  [] OTHER -> PendingSlot(got.module[1], task.geometry, task.offset)]

\* The call handing the loop index to the creation function as the offset:
\* createFunction(geometry, i).
callCreateFunction_indexAsOffset(acc, got, task, i, out) ==
  LET call == [task |-> i, by |-> got.module, geometry |-> task.geometry,
               offset |-> Some(i - 1)]
  IN  IF ~defined(got.module)
        THEN [acc EXCEPT !.w = got.w, !.threw = Some(TypeError(i))]
      ELSE IF out = "throw"
        THEN [acc EXCEPT !.w = got.w, !.calls = Append(@, call),
                         !.threw = Some(CreationError(i))]
      ELSE [acc EXCEPT
              !.w = got.w,
              !.calls = Append(@, call),
              !.slots[i] =
                CASE out = "geometry" ->
                       ValueSlot(CreatedGeometry(got.module[1], task.geometry, Some(i - 1)))
                  [] out = "undefined" -> ValueSlot(UndefinedValue)
                  [] OTHER -> PendingSlot(got.module[1], task.geometry, Some(i - 1))]

\* resultsOrPromises[i] = createFunction(geometry, task.offset), with the
\* function getModule returned (got) and what the function does when called
\* (out).
callCreateFunction(acc, got, task, i, out) ==
  LET call == [task |-> i, by |-> got.module, geometry |-> task.geometry,
               offset |-> task.offset]
  IN  IF ~defined(got.module)
        \* createFunction is undefined: calling it is a TypeError
        THEN [acc EXCEPT !.w = got.w, !.threw = Some(TypeError(i))]
      ELSE IF out = "throw"
        THEN [acc EXCEPT !.w = got.w, !.calls = Append(@, call),
                         !.threw = Some(CreationError(i))]
      ELSE [acc EXCEPT
              !.w = got.w,
              !.calls = Append(@, call),
              !.slots[i] =
                CASE out = "geometry" ->
                       ValueSlot(CreatedGeometry(got.module[1], task.geometry, task.offset))
                  [] out = "undefined" -> ValueSlot(UndefinedValue)
                  [] OTHER -> PendingSlot(got.module[1], task.geometry, task.offset)]

\* The loop body storing each result at the mirrored index.
loopBody_mirrored(e, acc, task, i, out) ==
  LET j == Len(acc.slots) + 1 - i
  IN  IF defined(task.moduleName)
        THEN LET got == getModule(e, acc.w, task.moduleName[1])
             IN  IF got.threw
                   THEN [acc EXCEPT !.w = got.w, !.threw = Some(ModuleError(i))]
                   ELSE callCreateFunction(acc, got, task, j, out)
        ELSE [acc EXCEPT !.slots[j] = ValueSlot(PassedGeometry(task.geometry))]

\* The loop body resolving a module for every sub-task: one without a
\* moduleName gets the circle outline module.
loopBody_alwaysResolve(e, acc, task, i, out) ==
  LET got == getModule(e, acc.w,
                       defaultValue(task.moduleName, Some("createCircleOutlineGeometry"))[1])
  IN  IF got.threw
        THEN [acc EXCEPT !.w = got.w, !.threw = Some(ModuleError(i))]
        ELSE callCreateFunction(acc, got, task, i, out)

\* The body of the for loop of createGeometry for the sub-task at index i:
\* acc = [w, slots, calls, threw].
loopBody(e, acc, task, i, out) ==
  IF defined(task.moduleName)
    THEN LET got == getModule(e, acc.w, task.moduleName[1])
         IN  IF got.threw
               THEN [acc EXCEPT !.w = got.w, !.threw = Some(ModuleError(i))]
               ELSE callCreateFunction(acc, got, task, i, out)
    \* Already created geometry
    ELSE [acc EXCEPT !.slots[i] = ValueSlot(PassedGeometry(task.geometry))]

\* for (var i = 0; i < length; i++) { ... }: a throw leaves the loop.
RECURSIVE forLoop(_, _, _, _, _)
forLoop(e, acc, subTasks, outs, i) ==
  IF i > Len(subTasks) \/ defined(acc.threw)
    THEN acc
    ELSE forLoop(e, loopBody(e, acc, subTasks[i], i, outs[i]), subTasks, outs, i + 1)

\* PrimitivePipeline.packCreateGeometryResults(results, transferableObjects):
\* one manifest slot per result, in order; an undefined result takes a slot of
\* length zero.
packCreateGeometryResults(results) ==
  [i \in 1..Len(results) |->
     [length |-> IF results[i].kind = "undefined" THEN 0 ELSE 1, from |-> results[i]]]

\* when.all's fan-in: every input is a value or a fulfilled promise.
allResolved(slots) ==
  \A i \in 1..Len(slots) : slots[i].state \in {"value", "fulfilled"}

\* The results when.all hands to its callback.
resultsOf(slots) == [i \in 1..Len(slots) |-> slots[i].value]

\* when.when.all(resultsOrPromises, function (results) { return pack(results) })
\* on a batch b whose promise is pending: rejected by the first rejected input,
\* fulfilled with the packer's manifest once every input is resolved.
whenAll(b) ==
  IF b.state # "pending" THEN b
  ELSE IF \E i \in 1..Len(b.slots) : b.slots[i].state = "rejected"
    THEN LET i == CHOOSE j \in 1..Len(b.slots) : b.slots[j].state = "rejected"
         IN  [b EXCEPT !.state = "rejected", !.error = b.slots[i].error]
  ELSE IF allResolved(b.slots)
    THEN [b EXCEPT !.state = "fulfilled",
                   !.packCalls = @ + 1,
                   !.packed = Some(resultsOf(b.slots)),
                   !.manifest = Some(packCreateGeometryResults(resultsOf(b.slots)))]
  ELSE b

\* A batch before createGeometry runs.
NewBatch(id, subTasks) ==
  [id |-> id, subTasks |-> subTasks,
   slots |-> [i \in 1..Len(subTasks) |-> HoleSlot],
   calls |-> << >>, state |-> "pending", error |-> None,
   packCalls |-> 0, packed |-> None, manifest |-> None,
   posted |-> << >>, settleOrder |-> << >>, outcomes |-> << >>,
   cacheBefore |-> EmptyObject, cacheAfter |-> EmptyObject]

\* createGeometry handing the packer whatever the loop left, without waiting
\* for the pending results.
createGeometry_noWait(e, w, id, subTasks, outs) ==
  LET loop == forLoop(e, [w |-> w, slots |-> NewBatch(id, subTasks).slots,
                          calls |-> << >>, threw |-> None],
                      subTasks, outs, 1)
      b == [NewBatch(id, subTasks) EXCEPT !.slots = loop.slots, !.calls = loop.calls,
                                          !.outcomes = outs,
                                          !.cacheBefore = w.cache,
                                          !.cacheAfter = loop.w.cache]
  IN  [w |-> loop.w,
       batch |-> IF defined(loop.threw)
                   THEN [b EXCEPT !.state = "threw", !.error = loop.threw]
                   ELSE [b EXCEPT !.state = "fulfilled",
                                  !.packCalls = @ + 1,
                                  !.packed = Some(resultsOf(b.slots)),
                                  !.manifest =
                                    Some(packCreateGeometryResults(resultsOf(b.slots)))]]

\* createGeometry(parameters, transferableObjects): the loop, then when.all.
\* Returns the worker state and the batch: state "threw" when the call threw.
createGeometry(e, w, id, subTasks, outs) ==
  LET loop == forLoop(e, [w |-> w, slots |-> NewBatch(id, subTasks).slots,
                          calls |-> << >>, threw |-> None],
                      subTasks, outs, 1)
      b == [NewBatch(id, subTasks) EXCEPT !.slots = loop.slots, !.calls = loop.calls,
                                          !.outcomes = outs,
                                          !.cacheBefore = w.cache,
                                          !.cacheAfter = loop.w.cache]
  IN  [w |-> loop.w,
       batch |-> IF defined(loop.threw)
                   THEN [b EXCEPT !.state = "threw", !.error = loop.threw]
                   ELSE whenAll(b)]

\* A wrapper without the try around the handler: a handler that throws posts
\* nothing.
createTaskProcessorWorker_noTry(b) ==
  IF b.state \in {"pending", "threw"} \/ Len(b.posted) > 0 THEN b
  ELSE [b EXCEPT !.posted =
          Append(@, [id |-> b.id,
                     result |-> IF b.state = "fulfilled" THEN b.manifest ELSE None,
                     error |-> IF b.state = "fulfilled" THEN None ELSE b.error])]

\* createTaskProcessorWorker(createGeometry): once the handler's promise is
\* settled (or the handler threw), post one response carrying the request's id.
createTaskProcessorWorker(b) ==
  IF b.state = "pending" \/ Len(b.posted) > 0 THEN b
  ELSE [b EXCEPT !.posted =
          Append(@, [id |-> b.id,
                     result |-> IF b.state = "fulfilled" THEN b.manifest ELSE None,
                     error |-> IF b.state = "fulfilled" THEN None ELSE b.error])]

\* ===================================================== shape descriptions
\* JavaScript values of the shape layer: None is undefined, Num(n) a number,
\* NonNumber a value whose typeof is not "number" (a string).
Num(n) == << n >>
NonNumber == << 0, 0 >>
typeOfNumber(v) == Len(v) = 1

\* Comparisons and Math.max/min on JavaScript values: a comparison with a
\* value that is no number is false, and a maximum of one is no number.
Less(a, b) == typeOfNumber(a) /\ typeOfNumber(b) /\ a[1] < b[1]
LessEq(a, b) == typeOfNumber(a) /\ typeOfNumber(b) /\ a[1] <= b[1]
MathMax(a, b) ==
  IF typeOfNumber(a) /\ typeOfNumber(b)
    THEN (IF a[1] >= b[1] THEN a ELSE b) ELSE NonNumber
MathMin(a, b) ==
  IF typeOfNumber(a) /\ typeOfNumber(b)
    THEN (IF a[1] <= b[1] THEN a ELSE b) ELSE NonNumber

\* A call that returns a value or throws.
Return(v) == [threw |-> FALSE, error |-> "", value |-> v]
Throw(e) == [threw |-> TRUE, error |-> e, value |-> None]

\* new Cartesian3(x, y, z): three components, each a JavaScript value.
Cartesian3(x, y, z) == << x, y, z >>
\* Cartesian3.clone(cartesian, result) and Ellipsoid.clone(ellipsoid, result):
\* a copy by value; undefined for an undefined argument.
Cartesian3_clone(cartesian) == cartesian
Ellipsoid_clone(ellipsoid) == ellipsoid

\* Reference bodies, as their radii.
Ellipsoid_WGS84 == Some(Cartesian3(Num(6378137), Num(6378137), Num(6356752)))
Ellipsoid_UNIT_SPHERE == Some(Cartesian3(Num(1), Num(1), Num(1)))

\* An options object: every property a constructor of the shape layer reads;
\* a property that is not set is undefined.
NoOptions ==
  [center |-> None, radius |-> None, ellipsoid |-> None, height |-> None,
   extrudedHeight |-> None, granularity |-> None, numberOfVerticalLines |-> None,
   semiMajorAxis |-> None, semiMinorAxis |-> None, rotation |-> None,
   offsetAttribute |-> None, radii |-> None, innerRadii |-> None,
   stackPartitions |-> None, slicePartitions |-> None, subdivisions |-> None,
   length |-> None, topRadius |-> None, bottomRadius |-> None, slices |-> None]

\* Defaults of the canonical base descriptions.
\* granularity, in hundredths of a radian
DefaultGranularity == 2
DefaultNumberOfVerticalLines == 16
DefaultStackPartitions == 10
DefaultSlicePartitions == 8
DefaultSubdivisions == 200
\* Sphere radius default.
DefaultRadius == 1
\* Cartesian3.packedLength and Ellipsoid.packedLength
Cartesian3_packedLength == 3

\* ------------------------------------------- EllipseOutlineGeometry (base)
\* new EllipseOutlineGeometry(options): the canonical ellipse-like description.
EllipseOutlineGeometry(options) ==
  LET center == options.center
      ellipsoid == defaultValue(options.ellipsoid, Ellipsoid_WGS84)
      semiMajorAxis == options.semiMajorAxis
      semiMinorAxis == options.semiMinorAxis
      granularity == defaultValue(options.granularity, Num(DefaultGranularity))
      height == defaultValue(options.height, Num(0))
      extrudedHeight == defaultValue(options.extrudedHeight, height)
  IN  IF ~defined(center) THEN Throw("DeveloperError: center is required.")
      ELSE IF ~defined(semiMajorAxis)
        THEN Throw("DeveloperError: semiMajorAxis is required.")
      ELSE IF ~defined(semiMinorAxis)
        THEN Throw("DeveloperError: semiMinorAxis is required.")
      ELSE IF Less(semiMajorAxis, semiMinorAxis)
        THEN Throw("DeveloperError: semiMajorAxis must be greater than or equal to the semiMinorAxis.")
      ELSE IF LessEq(granularity, Num(0))
        THEN Throw("DeveloperError: granularity must be greater than zero.")
      ELSE Return(
        [_center |-> Cartesian3_clone(center),
         _semiMajorAxis |-> semiMajorAxis,
         _semiMinorAxis |-> semiMinorAxis,
         _ellipsoid |-> Ellipsoid_clone(ellipsoid),
         _rotation |-> defaultValue(options.rotation, Num(0)),
         _height |-> MathMax(extrudedHeight, height),
         _granularity |-> granularity,
         _extrudedHeight |-> MathMin(extrudedHeight, height),
         _numberOfVerticalLines |->
           MathMax(defaultValue(options.numberOfVerticalLines,
                                Num(DefaultNumberOfVerticalLines)), Num(0)),
         _offsetAttribute |-> options.offsetAttribute])

EllipseOutlineGeometry_packedLength == 14

\* array[index] of a JavaScript array (0-based): undefined past its end.
At(array, index) == IF index + 1 \in DOMAIN array THEN array[index + 1] ELSE None

\* array[startingIndex++] = v for each v of values, in order.
WriteAt(array, startingIndex, values) ==
  LET n == IF startingIndex + Len(values) > Len(array)
             THEN startingIndex + Len(values) ELSE Len(array)
  IN  [i \in 1..n |->
         IF i > startingIndex /\ i <= startingIndex + Len(values)
           THEN values[i - startingIndex]
           ELSE At(array, i - 1)]

\* Cartesian3.pack / Ellipsoid.pack: the three components (of the radii).
Cartesian3_pack(c) ==
  IF defined(c) THEN << c[1][1], c[1][2], c[1][3] >> ELSE << None, None, None >>
\* Cartesian3.unpack(array, startingIndex)
Cartesian3_unpack(array, startingIndex) ==
  Some(Cartesian3(At(array, startingIndex), At(array, startingIndex + 1),
                  At(array, startingIndex + 2)))

\* EllipseOutlineGeometry.pack(value, array, startingIndex)
EllipseOutlineGeometry_pack(value, array, startingIndex) ==
  WriteAt(array, defaultValue(startingIndex, Num(0))[1],
          Cartesian3_pack(value._center) \o Cartesian3_pack(value._ellipsoid)
            \o << value._semiMajorAxis, value._semiMinorAxis, value._rotation,
                  value._height, value._granularity, value._extrudedHeight,
                  value._numberOfVerticalLines,
                  defaultValue(value._offsetAttribute, Num(-1)) >>)

\* EllipseOutlineGeometry.unpack(array, startingIndex, result) with a result
\* supplied: the fields read are stored into result, unvalidated.
EllipseOutlineGeometry_unpack(array, startingIndex) ==
  LET k == defaultValue(startingIndex, Num(0))[1]
      offsetAttribute == At(array, k + 13)
  IN  [_center |-> Cartesian3_unpack(array, k),
       _ellipsoid |-> Cartesian3_unpack(array, k + Cartesian3_packedLength),
       _semiMajorAxis |-> At(array, k + 6),
       _semiMinorAxis |-> At(array, k + 7),
       _rotation |-> At(array, k + 8),
       _height |-> At(array, k + 9),
       _granularity |-> At(array, k + 10),
       _extrudedHeight |-> At(array, k + 11),
       _numberOfVerticalLines |-> At(array, k + 12),
       _offsetAttribute |-> IF offsetAttribute = Num(-1) THEN None ELSE offsetAttribute]

\* The tessellation of a canonical description: a function of its numeric
\* fields alone.
Geometry(base) == Some([from |-> base])

\* EllipseOutlineGeometry.createGeometry(ellipseGeometry): undefined for a
\* collapsed ellipse.
EllipseOutlineGeometry_createGeometry(ellipseGeometry) ==
  IF LessEq(ellipseGeometry._semiMajorAxis, Num(0))
       \/ LessEq(ellipseGeometry._semiMinorAxis, Num(0))
    THEN None
    ELSE Geometry(ellipseGeometry)

\* ------------------------------------------------- CircleOutlineGeometry
\* object._ellipseGeometry = new EllipseOutlineGeometry(...): ellipse is what
\* the base constructor did, and its throw propagates.
CircleOutlineGeometry_assign(object, ellipse) ==
  IF ellipse.threw THEN ellipse
  ELSE Return(Some([object EXCEPT !._ellipseGeometry = ellipse.value]))

\* A CircleOutlineGeometry that defaults an omitted radius as the sphere
\* outline does.
CircleOutlineGeometry_defaultRadius(options) ==
  LET opts == defaultValue(options, Some(NoOptions))[1]
      radius == defaultValue(opts.radius, Num(DefaultRadius))
  IN  CircleOutlineGeometry_assign(
        [_ellipseGeometry |-> None, _workerName |-> "createCircleOutlineGeometry"],
        EllipseOutlineGeometry(
          [NoOptions EXCEPT !.center = opts.center,
                            !.semiMajorAxis = radius,
                            !.semiMinorAxis = radius,
                            !.ellipsoid = opts.ellipsoid,
                            !.height = opts.height,
                            !.extrudedHeight = opts.extrudedHeight,
                            !.granularity = opts.granularity,
                            !.numberOfVerticalLines = opts.numberOfVerticalLines]))

\* A CircleOutlineGeometry whose ellipse keeps the semi-minor axis 1.0 of the
\* scratch ellipse.
CircleOutlineGeometry_unitMinor(options) ==
  LET opts == defaultValue(options, Some(NoOptions))[1]
      radius == opts.radius
  IN  IF ~typeOfNumber(radius)
        THEN Throw("DeveloperError: Expected radius to be typeof number")
      ELSE CircleOutlineGeometry_assign(
             [_ellipseGeometry |-> None, _workerName |-> "createCircleOutlineGeometry"],
             EllipseOutlineGeometry(
               [NoOptions EXCEPT !.center = opts.center,
                                 !.semiMajorAxis = radius,
                                 !.semiMinorAxis = Num(1),
                                 !.ellipsoid = opts.ellipsoid,
                                 !.height = opts.height,
                                 !.extrudedHeight = opts.extrudedHeight,
                                 !.granularity = opts.granularity,
                                 !.numberOfVerticalLines = opts.numberOfVerticalLines]))

\* new CircleOutlineGeometry(options)
CircleOutlineGeometry(options) ==
  LET opts == defaultValue(options, Some(NoOptions))[1]
      radius == opts.radius
      ellipseGeometryOptions ==
        [NoOptions EXCEPT !.center = opts.center,
                          !.semiMajorAxis = radius,
                          !.semiMinorAxis = radius,
                          !.ellipsoid = opts.ellipsoid,
                          !.height = opts.height,
                          !.extrudedHeight = opts.extrudedHeight,
                          !.granularity = opts.granularity,
                          !.numberOfVerticalLines = opts.numberOfVerticalLines]
  IN  \* Check.typeOf.number("radius", radius)
      IF ~typeOfNumber(radius)
        THEN Throw("DeveloperError: Expected radius to be typeof number")
      ELSE CircleOutlineGeometry_assign(
             [_ellipseGeometry |-> None, _workerName |-> "createCircleOutlineGeometry"],
             EllipseOutlineGeometry(ellipseGeometryOptions))

CircleOutlineGeometry_packedLength == EllipseOutlineGeometry_packedLength

\* A pack that does not hand the starting index on to the base's pack.
CircleOutlineGeometry_pack_noIndex(value, array, startingIndex) ==
  IF ~defined(value)
    THEN Throw("DeveloperError: Expected value to be typeof object")
    ELSE Return(EllipseOutlineGeometry_pack(value[1]._ellipseGeometry, array, None))

\* A pack without the check of its value: reading value._ellipseGeometry of
\* an undefined value is a TypeError.
CircleOutlineGeometry_pack_noCheck(value, array, startingIndex) ==
  IF ~defined(value)
    THEN Throw("TypeError")
    ELSE Return(EllipseOutlineGeometry_pack(value[1]._ellipseGeometry, array, startingIndex))

\* CircleOutlineGeometry.pack(value, array, startingIndex)
CircleOutlineGeometry_pack(value, array, startingIndex) ==
  \* Check.typeOf.object("value", value)
  IF ~defined(value)
    THEN Throw("DeveloperError: Expected value to be typeof object")
    ELSE Return(EllipseOutlineGeometry_pack(value[1]._ellipseGeometry, array, startingIndex))

\* The module's scratch state when the module is loaded:
\* scratchEllipseGeometry and scratchOptions.
CircleScratch ==
  [scratchEllipseGeometry |->
     EllipseOutlineGeometry(
       [NoOptions EXCEPT !.center = Some(Cartesian3(Num(0), Num(0), Num(0))),
                         !.semiMajorAxis = Num(1),
                         !.semiMinorAxis = Num(1)]).value,
   scratchOptions |->
     [NoOptions EXCEPT !.center = Some(Cartesian3(Num(0), Num(0), Num(0))),
                       !.ellipsoid = Ellipsoid_clone(Ellipsoid_UNIT_SPHERE)]]

\* What unpack leaves and returns: the scratch state after the call and what
\* the constructor it ended with did.
UnpackReturn(scratch, made) ==
  [scratch |-> scratch, threw |-> made.threw, error |-> made.error,
   value |-> made.value]

\* An unpack that leaves scratchOptions.height as it was.
CircleOutlineGeometry_unpackRest_staleHeight(sc, ellipseGeometry, result) ==
  LET options1 ==
        [sc.scratchOptions EXCEPT
           !.center = Cartesian3_clone(ellipseGeometry._center),
           !.ellipsoid = Ellipsoid_clone(ellipseGeometry._ellipsoid),
           !.extrudedHeight = ellipseGeometry._extrudedHeight,
           !.granularity = ellipseGeometry._granularity,
           !.numberOfVerticalLines = ellipseGeometry._numberOfVerticalLines]
      optionsNew == [options1 EXCEPT !.radius = ellipseGeometry._semiMajorAxis]
      optionsResult ==
        [options1 EXCEPT !.semiMajorAxis = ellipseGeometry._semiMajorAxis,
                         !.semiMinorAxis = ellipseGeometry._semiMinorAxis]
  IN  IF ~defined(result)
        THEN UnpackReturn([scratchEllipseGeometry |-> ellipseGeometry,
                           scratchOptions |-> optionsNew],
                          CircleOutlineGeometry(Some(optionsNew)))
        ELSE UnpackReturn([scratchEllipseGeometry |-> ellipseGeometry,
                           scratchOptions |-> optionsResult],
                          CircleOutlineGeometry_assign(
                            result[1], EllipseOutlineGeometry(optionsResult)))

\* An unpack whose path without a result takes the radius from
\* scratchOptions.semiMajorAxis when an earlier call left one there.
CircleOutlineGeometry_unpackRest_staleAxis(sc, ellipseGeometry, result) ==
  LET options1 ==
        [sc.scratchOptions EXCEPT
           !.center = Cartesian3_clone(ellipseGeometry._center),
           !.ellipsoid = Ellipsoid_clone(ellipseGeometry._ellipsoid),
           !.height = ellipseGeometry._height,
           !.extrudedHeight = ellipseGeometry._extrudedHeight,
           !.granularity = ellipseGeometry._granularity,
           !.numberOfVerticalLines = ellipseGeometry._numberOfVerticalLines]
      optionsNew ==
        [options1 EXCEPT
           !.radius = defaultValue(sc.scratchOptions.semiMajorAxis,
                                   ellipseGeometry._semiMajorAxis)]
      optionsResult ==
        [options1 EXCEPT !.semiMajorAxis = ellipseGeometry._semiMajorAxis,
                         !.semiMinorAxis = ellipseGeometry._semiMinorAxis]
  IN  IF ~defined(result)
        THEN UnpackReturn([scratchEllipseGeometry |-> ellipseGeometry,
                           scratchOptions |-> optionsNew],
                          CircleOutlineGeometry(Some(optionsNew)))
        ELSE UnpackReturn([scratchEllipseGeometry |-> ellipseGeometry,
                           scratchOptions |-> optionsResult],
                          CircleOutlineGeometry_assign(
                            result[1], EllipseOutlineGeometry(optionsResult)))

\* CircleOutlineGeometry.unpack after the base's unpack filled
\* scratchEllipseGeometry (ellipseGeometry): scratchOptions takes the fields
\* read, and a description is built from it or stored into result.
CircleOutlineGeometry_unpackRest(sc, ellipseGeometry, result) ==
  LET options1 ==
        [sc.scratchOptions EXCEPT
           !.center = Cartesian3_clone(ellipseGeometry._center),
           !.ellipsoid = Ellipsoid_clone(ellipseGeometry._ellipsoid),
           !.height = ellipseGeometry._height,
           !.extrudedHeight = ellipseGeometry._extrudedHeight,
           !.granularity = ellipseGeometry._granularity,
           !.numberOfVerticalLines = ellipseGeometry._numberOfVerticalLines]
      optionsNew == [options1 EXCEPT !.radius = ellipseGeometry._semiMajorAxis]
      optionsResult ==
        [options1 EXCEPT !.semiMajorAxis = ellipseGeometry._semiMajorAxis,
                         !.semiMinorAxis = ellipseGeometry._semiMinorAxis]
  IN  IF ~defined(result)
        THEN UnpackReturn([scratchEllipseGeometry |-> ellipseGeometry,
                           scratchOptions |-> optionsNew],
                          CircleOutlineGeometry(Some(optionsNew)))
        ELSE UnpackReturn([scratchEllipseGeometry |-> ellipseGeometry,
                           scratchOptions |-> optionsResult],
                          CircleOutlineGeometry_assign(
                            result[1], EllipseOutlineGeometry(optionsResult)))

\* CircleOutlineGeometry.unpack(array, startingIndex, result) on the scratch
\* state sc: the scratch state after the call and what the call returns.
CircleOutlineGeometry_unpack(sc, array, startingIndex, result) ==
  CircleOutlineGeometry_unpackRest(
    sc, EllipseOutlineGeometry_unpack(array, startingIndex), result)

\* CircleOutlineGeometry.createGeometry(circleGeometry)
CircleOutlineGeometry_createGeometry(circleGeometry) ==
  EllipseOutlineGeometry_createGeometry(circleGeometry._ellipseGeometry)

\* The first argument of a creation entrypoint: a packed array or a
\* description object.
ArrayArg(array) == [type |-> "array", array |-> array, object |-> None]
ObjectArg(description) == [type |-> "object", array |-> << >>, object |-> description]
\* arg[i] for an arg that is no array is undefined.
AsArray(arg) == IF arg.type = "array" THEN arg.array ELSE << >>

\* What a creation entrypoint did: the scratch state after it, whether it
\* threw, the geometry returned, the offsets unpack was called with, and the
\* description createGeometry was given.
EntryResult(scratch, call, unpackedAt, description) ==
  [scratch |-> scratch, threw |-> call.threw, error |-> call.error,
   value |-> call.value, unpackedAt |-> unpackedAt, description |-> description]

\* The argument of an entrypoint that calls no unpack: the description as it
\* was given, and the scratch state as it was.
NotUnpacked(sc, arg) ==
  [scratch |-> sc, threw |-> FALSE, error |-> "", value |-> arg.object]

\* An entrypoint that stores a clone of the center as the ellipsoid.
createCircleOutlineGeometry_rest_pasted(u, unpackedAt) ==
  LET cloned ==
        [u.value[1] EXCEPT
           !._ellipseGeometry._center = Cartesian3_clone(@),
           !._ellipseGeometry._ellipsoid =
             Cartesian3_clone(u.value[1]._ellipseGeometry._center)]
  IN  IF u.threw
        THEN EntryResult(u.scratch, Throw(u.error), unpackedAt, None)
      ELSE IF ~defined(u.value)
        THEN EntryResult(u.scratch, Throw("TypeError"), unpackedAt, None)
      ELSE EntryResult(u.scratch, Return(CircleOutlineGeometry_createGeometry(cloned)),
                       unpackedAt, Some(cloned))

\* createCircleOutlineGeometry after the test of the offset: u is what unpack
\* did, or the argument as given.
createCircleOutlineGeometry_rest(u, unpackedAt) ==
  LET cloned ==
        [u.value[1] EXCEPT
           !._ellipseGeometry._center = Cartesian3_clone(@),
           !._ellipseGeometry._ellipsoid = Ellipsoid_clone(@)]
  IN  IF u.threw
        THEN EntryResult(u.scratch, Throw(u.error), unpackedAt, None)
      ELSE IF ~defined(u.value)
        \* circleGeometry._ellipseGeometry is undefined
        THEN EntryResult(u.scratch, Throw("TypeError"), unpackedAt, None)
      ELSE EntryResult(u.scratch, Return(CircleOutlineGeometry_createGeometry(cloned)),
                       unpackedAt, Some(cloned))

\* An entrypoint testing the offset for truthiness: if (offset) { ... }.
createCircleOutlineGeometry_truthy(sc, arg, offset) ==
  IF defined(offset) /\ offset # Num(0)
    THEN createCircleOutlineGeometry_rest(
           CircleOutlineGeometry_unpack(sc, AsArray(arg), offset, None), << offset >>)
    ELSE createCircleOutlineGeometry_rest(NotUnpacked(sc, arg), << >>)

\* createCircleOutlineGeometry(circleGeometry, offset)
createCircleOutlineGeometry(sc, arg, offset) ==
  IF defined(offset)
    THEN createCircleOutlineGeometry_rest(
           CircleOutlineGeometry_unpack(sc, AsArray(arg), offset, None), << offset >>)
    ELSE createCircleOutlineGeometry_rest(NotUnpacked(sc, arg), << >>)

\* ---------------------------------------- EllipsoidOutlineGeometry (base)
\* new EllipsoidOutlineGeometry(options): the canonical ellipsoid-like
\* description.  Angles in hundredths of a radian.
EllipsoidOutlineGeometry(options) ==
  LET opts == defaultValue(options, Some(NoOptions))[1]
      radii == defaultValue(opts.radii, Some(Cartesian3(Num(1), Num(1), Num(1))))
      innerRadii == defaultValue(opts.innerRadii, radii)
      stackPartitions == defaultValue(opts.stackPartitions, Num(DefaultStackPartitions))
      slicePartitions == defaultValue(opts.slicePartitions, Num(DefaultSlicePartitions))
      subdivisions == defaultValue(opts.subdivisions, Num(DefaultSubdivisions))
  IN  IF Less(stackPartitions, Num(1))
        THEN Throw("DeveloperError: options.stackPartitions cannot be less than 1")
      ELSE IF Less(slicePartitions, Num(0))
        THEN Throw("DeveloperError: options.slicePartitions cannot be less than 0")
      ELSE IF Less(subdivisions, Num(0))
        THEN Throw("DeveloperError: options.subdivisions must be greater than or equal to zero.")
      ELSE Return(
        [_radii |-> Cartesian3_clone(radii),
         _innerRadii |-> Cartesian3_clone(innerRadii),
         _minimumClock |-> Num(0),
         _maximumClock |-> Num(628),
         _minimumCone |-> Num(0),
         _maximumCone |-> Num(314),
         _stackPartitions |-> stackPartitions,
         _slicePartitions |-> slicePartitions,
         _subdivisions |-> subdivisions,
         _offsetAttribute |-> opts.offsetAttribute])

EllipsoidOutlineGeometry_packedLength == 14

\* EllipsoidOutlineGeometry.pack(value, array, startingIndex)
EllipsoidOutlineGeometry_pack(value, array, startingIndex) ==
  WriteAt(array, defaultValue(startingIndex, Num(0))[1],
          Cartesian3_pack(value._radii) \o Cartesian3_pack(value._innerRadii)
            \o << value._minimumClock, value._maximumClock, value._minimumCone,
                  value._maximumCone, value._stackPartitions, value._slicePartitions,
                  value._subdivisions,
                  defaultValue(value._offsetAttribute, Num(-1)) >>)

\* EllipsoidOutlineGeometry.unpack(array, startingIndex, result) with a result
\* supplied: the fields read are stored into result, unvalidated.
EllipsoidOutlineGeometry_unpack(array, startingIndex) ==
  LET k == defaultValue(startingIndex, Num(0))[1]
      offsetAttribute == At(array, k + 13)
  IN  [_radii |-> Cartesian3_unpack(array, k),
       _innerRadii |-> Cartesian3_unpack(array, k + Cartesian3_packedLength),
       _minimumClock |-> At(array, k + 6),
       _maximumClock |-> At(array, k + 7),
       _minimumCone |-> At(array, k + 8),
       _maximumCone |-> At(array, k + 9),
       _stackPartitions |-> At(array, k + 10),
       _slicePartitions |-> At(array, k + 11),
       _subdivisions |-> At(array, k + 12),
       _offsetAttribute |-> IF offsetAttribute = Num(-1) THEN None ELSE offsetAttribute]

\* EllipsoidOutlineGeometry.createGeometry(ellipsoidGeometry): undefined for
\* a collapsed ellipsoid.
EllipsoidOutlineGeometry_createGeometry(ellipsoidGeometry) ==
  IF \E i \in 1..3 : LessEq(ellipsoidGeometry._radii[1][i], Num(0))
                       \/ LessEq(ellipsoidGeometry._innerRadii[1][i], Num(0))
    THEN None
    ELSE Geometry(ellipsoidGeometry)

\* ------------------------------------------------- SphereOutlineGeometry
\* object._ellipsoidGeometry = new EllipsoidOutlineGeometry(...): ellipsoid is
\* what the base constructor did, and its throw propagates.
SphereOutlineGeometry_assign(object, ellipsoid) ==
  IF ellipsoid.threw THEN ellipsoid
  ELSE Return(Some([object EXCEPT !._ellipsoidGeometry = ellipsoid.value]))

\* new SphereOutlineGeometry(options)
SphereOutlineGeometry(options) ==
  IF ~defined(options)
    \* options.radius of undefined
    THEN Throw("TypeError")
    ELSE
      LET radius == defaultValue(options[1].radius, Num(DefaultRadius))
          radii == Some(Cartesian3(radius, radius, radius))
          ellipsoidOptions ==
            [NoOptions EXCEPT !.radii = radii,
                              !.stackPartitions = options[1].stackPartitions,
                              !.slicePartitions = options[1].slicePartitions,
                              !.subdivisions = options[1].subdivisions]
      IN  SphereOutlineGeometry_assign(
            [_ellipsoidGeometry |-> None, _workerName |-> "createSphereOutlineGeometry"],
            EllipsoidOutlineGeometry(Some(ellipsoidOptions)))

SphereOutlineGeometry_packedLength == EllipsoidOutlineGeometry_packedLength

\* SphereOutlineGeometry.pack(value, array, startingIndex)
SphereOutlineGeometry_pack(value, array, startingIndex) ==
  \* Check.typeOf.object("value", value)
  IF ~defined(value)
    THEN Throw("DeveloperError: Expected value to be typeof object")
    ELSE Return(EllipsoidOutlineGeometry_pack(value[1]._ellipsoidGeometry, array,
                                              startingIndex))

\* The module's scratch state when the module is loaded:
\* scratchEllipsoidGeometry and scratchOptions.
SphereScratch ==
  [scratchEllipsoidGeometry |-> EllipsoidOutlineGeometry(None).value,
   scratchOptions |->
     [NoOptions EXCEPT !.radii = Some(Cartesian3(Num(0), Num(0), Num(0)))]]

\* An unpack that does not copy the radii read into scratchOptions.radii
\* before building the result's base from scratchOptions.
SphereOutlineGeometry_unpackRest_staleRadii(sc, ellipsoidGeometry, result) ==
  LET options1 ==
        [sc.scratchOptions EXCEPT
           !.stackPartitions = ellipsoidGeometry._stackPartitions,
           !.slicePartitions = ellipsoidGeometry._slicePartitions,
           !.subdivisions = ellipsoidGeometry._subdivisions]
      optionsNew == [options1 EXCEPT !.radius = ellipsoidGeometry._radii[1][1]]
  IN  IF ~defined(result)
        THEN UnpackReturn([scratchEllipsoidGeometry |-> ellipsoidGeometry,
                           scratchOptions |-> optionsNew],
                          SphereOutlineGeometry(Some(optionsNew)))
        ELSE UnpackReturn([scratchEllipsoidGeometry |-> ellipsoidGeometry,
                           scratchOptions |-> options1],
                          SphereOutlineGeometry_assign(
                            result[1], EllipsoidOutlineGeometry(Some(options1))))

\* SphereOutlineGeometry.unpack after the base's unpack filled
\* scratchEllipsoidGeometry (ellipsoidGeometry): scratchOptions takes the
\* fields read, and a description is built from it or stored into result.
SphereOutlineGeometry_unpackRest(sc, ellipsoidGeometry, result) ==
  LET options1 ==
        [sc.scratchOptions EXCEPT
           !.stackPartitions = ellipsoidGeometry._stackPartitions,
           !.slicePartitions = ellipsoidGeometry._slicePartitions,
           !.subdivisions = ellipsoidGeometry._subdivisions]
      optionsNew == [options1 EXCEPT !.radius = ellipsoidGeometry._radii[1][1]]
      optionsResult ==
        [options1 EXCEPT !.radii = Cartesian3_clone(ellipsoidGeometry._radii)]
  IN  IF ~defined(result)
        THEN UnpackReturn([scratchEllipsoidGeometry |-> ellipsoidGeometry,
                           scratchOptions |-> optionsNew],
                          SphereOutlineGeometry(Some(optionsNew)))
        ELSE UnpackReturn([scratchEllipsoidGeometry |-> ellipsoidGeometry,
                           scratchOptions |-> optionsResult],
                          SphereOutlineGeometry_assign(
                            result[1], EllipsoidOutlineGeometry(Some(optionsResult))))

\* SphereOutlineGeometry.unpack(array, startingIndex, result) on the scratch
\* state sc: the scratch state after the call and what the call returns.
SphereOutlineGeometry_unpack(sc, array, startingIndex, result) ==
  SphereOutlineGeometry_unpackRest(
    sc, EllipsoidOutlineGeometry_unpack(array, startingIndex), result)

\* SphereOutlineGeometry.createGeometry(sphereGeometry)
SphereOutlineGeometry_createGeometry(sphereGeometry) ==
  EllipsoidOutlineGeometry_createGeometry(sphereGeometry._ellipsoidGeometry)

\* createSphereOutlineGeometry after the test of the offset: u is what unpack
\* did, or the argument as given.
createSphereOutlineGeometry_rest(u, unpackedAt) ==
  IF u.threw
    THEN EntryResult(u.scratch, Throw(u.error), unpackedAt, None)
  ELSE IF ~defined(u.value)
    \* sphereGeometry._ellipsoidGeometry is undefined
    THEN EntryResult(u.scratch, Throw("TypeError"), unpackedAt, None)
  ELSE EntryResult(u.scratch,
                   Return(SphereOutlineGeometry_createGeometry(u.value[1])),
                   unpackedAt, u.value)

\* createSphereOutlineGeometry(sphereGeometry, offset)
createSphereOutlineGeometry(sc, arg, offset) ==
  IF defined(offset)
    THEN createSphereOutlineGeometry_rest(
           SphereOutlineGeometry_unpack(sc, AsArray(arg), offset, None), << offset >>)
    ELSE createSphereOutlineGeometry_rest(NotUnpacked(sc, arg), << >>)

\* ------------------------------------- EllipseGeometry, CylinderGeometry
\* The filled ellipse has the canonical ellipse-like description: made is
\* what building it did.
EllipseGeometry_this(made) ==
  IF made.threw THEN made ELSE Return(Some(made.value))

\* new EllipseGeometry(options)
EllipseGeometry(options) ==
  EllipseGeometry_this(EllipseOutlineGeometry(defaultValue(options, Some(NoOptions))[1]))

\* EllipseGeometry.pack(value, array, startingIndex)
EllipseGeometry_pack(value, array, startingIndex) ==
  IF ~defined(value)
    THEN Throw("DeveloperError: value is required")
    ELSE Return(EllipseOutlineGeometry_pack(value[1], array, startingIndex))

\* The options EllipseGeometry.unpack builds its instance from: the fields
\* read.
EllipseGeometry_unpackOptions(read) ==
  [NoOptions EXCEPT !.center = read._center,
                    !.ellipsoid = read._ellipsoid,
                    !.semiMajorAxis = read._semiMajorAxis,
                    !.semiMinorAxis = read._semiMinorAxis,
                    !.rotation = read._rotation,
                    !.height = read._height,
                    !.granularity = read._granularity,
                    !.extrudedHeight = read._extrudedHeight,
                    !.numberOfVerticalLines = read._numberOfVerticalLines,
                    !.offsetAttribute = read._offsetAttribute]

\* EllipseGeometry.unpack(array, startingIndex): a new instance built from the
\* fields read.
EllipseGeometry_unpack(array, startingIndex) ==
  EllipseGeometry(Some(EllipseGeometry_unpackOptions(
                         EllipseOutlineGeometry_unpack(array, startingIndex))))

\* EllipseGeometry.createGeometry(ellipseGeometry)
EllipseGeometry_createGeometry(ellipseGeometry) ==
  EllipseOutlineGeometry_createGeometry(ellipseGeometry)

\* createEllipseGeometry after the test of the offset: u is what unpack did,
\* or the argument as given.
createEllipseGeometry_rest(sc, u, unpackedAt) ==
  LET cloned == [u.value[1] EXCEPT !._center = Cartesian3_clone(@),
                                   !._ellipsoid = Ellipsoid_clone(@)]
  IN  IF u.threw
        THEN EntryResult(sc, Throw(u.error), unpackedAt, None)
      ELSE IF ~defined(u.value)
        THEN EntryResult(sc, Throw("TypeError"), unpackedAt, None)
      ELSE EntryResult(sc, Return(EllipseGeometry_createGeometry(cloned)),
                       unpackedAt, Some(cloned))

\* createEllipseGeometry(ellipseGeometry, offset)
createEllipseGeometry(sc, arg, offset) ==
  IF defined(offset)
    THEN createEllipseGeometry_rest(sc, EllipseGeometry_unpack(AsArray(arg), offset),
                                    << offset >>)
    ELSE createEllipseGeometry_rest(sc, NotUnpacked(sc, arg), << >>)

DefaultSlices == 128

\* new CylinderGeometry(options)
CylinderGeometry(options) ==
  LET opts == defaultValue(options, Some(NoOptions))[1]
  IN  IF ~defined(opts.length)
        THEN Throw("DeveloperError: options.length must be defined.")
      ELSE IF ~defined(opts.topRadius)
        THEN Throw("DeveloperError: options.topRadius must be defined.")
      ELSE IF ~defined(opts.bottomRadius)
        THEN Throw("DeveloperError: options.bottomRadius must be defined.")
      ELSE Return(Some([_length |-> opts.length,
                        _topRadius |-> opts.topRadius,
                        _bottomRadius |-> opts.bottomRadius,
                        _slices |-> defaultValue(opts.slices, Num(DefaultSlices))]))

\* CylinderGeometry.pack(value, array, startingIndex)
CylinderGeometry_pack(value, array, startingIndex) ==
  IF ~defined(value)
    THEN Throw("DeveloperError: value is required")
    ELSE Return(WriteAt(array, defaultValue(startingIndex, Num(0))[1],
                        << value[1]._length, value[1]._topRadius,
                           value[1]._bottomRadius, value[1]._slices >>))

\* CylinderGeometry.unpack(array, startingIndex): a new instance built from
\* the fields read.
CylinderGeometry_unpack(array, startingIndex) ==
  LET k == defaultValue(startingIndex, Num(0))[1]
  IN  CylinderGeometry(Some(
        [NoOptions EXCEPT !.length = At(array, k),
                          !.topRadius = At(array, k + 1),
                          !.bottomRadius = At(array, k + 2),
                          !.slices = At(array, k + 3)]))

\* CylinderGeometry.createGeometry(cylinderGeometry): undefined for a
\* collapsed cylinder.
CylinderGeometry_createGeometry(cylinderGeometry) ==
  IF LessEq(cylinderGeometry._length, Num(0))
       \/ Less(cylinderGeometry._topRadius, Num(0))
       \/ Less(cylinderGeometry._bottomRadius, Num(0))
       \/ (cylinderGeometry._topRadius = Num(0) /\ cylinderGeometry._bottomRadius = Num(0))
    THEN None
    ELSE Geometry(cylinderGeometry)

\* createCylinderGeometry after the test of the offset: u is what unpack did,
\* or the argument as given.
createCylinderGeometry_rest(sc, u, unpackedAt) ==
  IF u.threw
    THEN EntryResult(sc, Throw(u.error), unpackedAt, None)
  ELSE IF ~defined(u.value)
    THEN EntryResult(sc, Throw("TypeError"), unpackedAt, None)
  ELSE EntryResult(sc, Return(CylinderGeometry_createGeometry(u.value[1])),
                   unpackedAt, u.value)

\* createCylinderGeometry(cylinderGeometry, offset)
createCylinderGeometry(sc, arg, offset) ==
  IF defined(offset)
    THEN createCylinderGeometry_rest(sc, CylinderGeometry_unpack(AsArray(arg), offset),
                                     << offset >>)
    ELSE createCylinderGeometry_rest(sc, NotUnpacked(sc, arg), << >>)

\* ------------------------------------------------ the four shape modules
Shapes == {"circle", "sphere", "ellipse", "cylinder"}

\* The scratch state of a shape module when it is loaded.  The scratch state
\* of the ellipse and cylinder modules is not theirs but their base's.
NoScratch == [scratchOptions |-> NoOptions]
InitialScratch(s) ==
  CASE s = "circle" -> CircleScratch
    [] s = "sphere" -> SphereScratch
    [] OTHER -> NoScratch

\* new X(options), X.pack, X.unpack and createXGeometry of shape module s.
Construct(s, options) ==
  CASE s = "circle" -> CircleOutlineGeometry(options)
    [] s = "sphere" -> SphereOutlineGeometry(options)
    [] s = "ellipse" -> EllipseGeometry(options)
    [] OTHER -> CylinderGeometry(options)

Pack(s, value, array, startingIndex) ==
  CASE s = "circle" -> CircleOutlineGeometry_pack(value, array, startingIndex)
    [] s = "sphere" -> SphereOutlineGeometry_pack(value, array, startingIndex)
    [] s = "ellipse" -> EllipseGeometry_pack(value, array, startingIndex)
    [] OTHER -> CylinderGeometry_pack(value, array, startingIndex)

Unpack(s, sc, array, startingIndex, result) ==
  CASE s = "circle" -> CircleOutlineGeometry_unpack(sc, array, startingIndex, result)
    [] s = "sphere" -> SphereOutlineGeometry_unpack(sc, array, startingIndex, result)

CreateEntry(s, sc, arg, offset) ==
  CASE s = "circle" -> createCircleOutlineGeometry(sc, arg, offset)
    [] s = "sphere" -> createSphereOutlineGeometry(sc, arg, offset)
    [] s = "ellipse" -> createEllipseGeometry(sc, arg, offset)
    [] OTHER -> createCylinderGeometry(sc, arg, offset)

\* The canonical base description a description of shape s wraps.
BaseOf(s, d) ==
  CASE s = "circle" -> d._ellipseGeometry
    [] s = "sphere" -> d._ellipsoidGeometry
    [] OTHER -> d

\* The options the constructors are called with.
CenterOrigin == Some(Cartesian3(Num(0), Num(0), Num(0)))
CenterPoint == Some(Cartesian3(Num(1), Num(2), Num(3)))
OptionsOf(s) ==
  CASE s = "circle" ->
         { None,
           Some([NoOptions EXCEPT !.center = CenterPoint, !.radius = Num(2)]),
           Some([NoOptions EXCEPT !.center = CenterOrigin, !.radius = Num(3),
                                  !.ellipsoid = Ellipsoid_UNIT_SPHERE,
                                  !.height = Num(1), !.extrudedHeight = Num(4),
                                  !.granularity = Num(5),
                                  !.numberOfVerticalLines = Num(3)]),
           Some([NoOptions EXCEPT !.center = CenterPoint, !.radius = Num(0),
                                  !.height = Num(4), !.extrudedHeight = Num(1)]),
           Some([NoOptions EXCEPT !.center = CenterPoint]),
           Some([NoOptions EXCEPT !.center = CenterPoint, !.radius = NonNumber]),
           Some([NoOptions EXCEPT !.radius = Num(2)]) }
    [] s = "sphere" ->
         { None,
           Some(NoOptions),
           Some([NoOptions EXCEPT !.radius = Num(2)]),
           Some([NoOptions EXCEPT !.radius = Num(3), !.stackPartitions = Num(4),
                                  !.slicePartitions = Num(5), !.subdivisions = Num(6)]),
           Some([NoOptions EXCEPT !.radius = Num(0)]),
           Some([NoOptions EXCEPT !.radius = NonNumber]),
           Some([NoOptions EXCEPT !.radius = Num(2), !.stackPartitions = Num(0)]) }
    [] s = "ellipse" ->
         { Some([NoOptions EXCEPT !.center = CenterPoint, !.semiMajorAxis = Num(3),
                                  !.semiMinorAxis = Num(2)]),
           Some([NoOptions EXCEPT !.center = CenterOrigin, !.semiMajorAxis = Num(2),
                                  !.semiMinorAxis = Num(2), !.height = Num(1)]),
           Some([NoOptions EXCEPT !.center = CenterPoint, !.semiMinorAxis = Num(2)]) }
    [] OTHER ->
         { Some([NoOptions EXCEPT !.length = Num(2), !.topRadius = Num(1),
                                  !.bottomRadius = Num(1)]),
           Some([NoOptions EXCEPT !.length = Num(3), !.topRadius = Num(0),
                                  !.bottomRadius = Num(2), !.slices = Num(4)]),
           Some([NoOptions EXCEPT !.topRadius = Num(1), !.bottomRadius = Num(1)]) }

\* The starting indexes and offsets the packing operations are called with:
\* absent, the first slice, the second slice.
StartingIndexes == {None, Num(0), Num(EllipseOutlineGeometry_packedLength)}
\* The slice (1 or 2) a starting index names.
SliceOf(startingIndex) == IF defaultValue(startingIndex, Num(0)) = Num(0) THEN 1 ELSE 2

\* ------------------------------------------------- objects and references
\* The module-level objects unpack writes into on every call.
ScratchObjects ==
  { "scratchEllipseGeometry", "scratchOptions.center", "scratchOptions.ellipsoid",
    "scratchEllipsoidGeometry", "scratchOptions.radii" }

\* Cartesian3.clone(cartesian) and Ellipsoid.clone(ellipsoid) without a
\* result: a new object, which shares nothing with the object cloned (refs:
\* the scratch objects the argument is).
ClonedRefs(refs) == {}

\* The scratch objects a canonical base description refers to when built by
\* new EllipseOutlineGeometry(options) or new EllipsoidOutlineGeometry(options)
\* from options whose object-valued properties are the scratch objects
\* optionRefs: the constructors store clones.
BaseConstructorRefs(optionRefs) ==
  UNION { ClonedRefs(optionRefs[k]) : k \in DOMAIN optionRefs }

\* An unpack storing the scratch ellipse itself into the result:
\* result._ellipseGeometry = ellipseGeometry.
CircleOutlineGeometry_unpackRefs_scratchEllipse(result) ==
  IF defined(result) THEN { "scratchEllipseGeometry" }
  ELSE BaseConstructorRefs([center |-> { "scratchOptions.center" },
                            ellipsoid |-> { "scratchOptions.ellipsoid" }])

\* The scratch objects the description CircleOutlineGeometry.unpack returns
\* refers to: both paths hand scratchOptions, whose center and ellipsoid are
\* scratch objects, to a constructor.
CircleOutlineGeometry_unpackRefs(result) ==
  BaseConstructorRefs([center |-> { "scratchOptions.center" },
                       ellipsoid |-> { "scratchOptions.ellipsoid" }])

\* The scratch objects the description SphereOutlineGeometry.unpack returns
\* refers to: without a result the radii are a new Cartesian3(radius, radius,
\* radius); with one the base is built from scratchOptions.radii.
SphereOutlineGeometry_unpackRefs(result) ==
  IF ~defined(result)
    THEN BaseConstructorRefs([radii |-> {}])
    ELSE BaseConstructorRefs([radii |-> { "scratchOptions.radii" }])

UnpackRefs(s, result) ==
  IF s = "circle" THEN CircleOutlineGeometry_unpackRefs(result)
  ELSE SphereOutlineGeometry_unpackRefs(result)

\* The description d of shape s, which refers to the scratch objects refs,
\* as it reads once the module's scratch state is sc.
SeenAfter(s, d, refs, sc) ==
  IF refs = {} \/ ~defined(d) THEN d
  ELSE IF s = "circle"
    THEN Some([d[1] EXCEPT
                 !._ellipseGeometry =
                   IF "scratchEllipseGeometry" \in refs THEN sc.scratchEllipseGeometry
                   ELSE [@ EXCEPT
                           !._center = IF "scratchOptions.center" \in refs
                                         THEN sc.scratchOptions.center ELSE @,
                           !._ellipsoid = IF "scratchOptions.ellipsoid" \in refs
                                            THEN sc.scratchOptions.ellipsoid ELSE @]])
  ELSE IF s = "sphere"
    THEN Some([d[1] EXCEPT
                 !._ellipsoidGeometry =
                   IF "scratchEllipsoidGeometry" \in refs THEN sc.scratchEllipsoidGeometry
                   ELSE [@ EXCEPT
                           !._radii = IF "scratchOptions.radii" \in refs
                                        THEN sc.scratchOptions.radii ELSE @]])
  ELSE d

\* A variable of the caller that holds a description no unpack returned.
NotUnpackedYet == [unpacked |-> FALSE, refs |-> {}]

\* ---------------------------------------------------------------- state
SubTasksSoFar ==
  LET RECURSIVE Sum(_)
      Sum(i) == IF i = 0 THEN 0 ELSE Len(requests[i].subTasks) + Sum(i - 1)
  IN  Sum(Len(requests))

Batches(n) == UNION { [1..k -> SubTasks] : k \in 0..n }

\* The outcomes the creation functions of a batch may have; a sub-task that
\* calls none has none to choose.
OutcomesOf(subTasks) ==
  { outs \in [1..Len(subTasks) -> Outcomes] :
      \A i \in 1..Len(subTasks) :
        (~defined(subTasks[i].moduleName)
           \/ subTasks[i].moduleName[1] \notin ResolvableModules)
          => outs[i] = "geometry" }

\* No call made yet.
NoLast ==
  [n |-> 0, op |-> "none", threw |-> FALSE, error |-> "", slot |-> 0, offset |-> None,
   usedResult |-> FALSE, unpackedAt |-> << >>, value |-> None,
   description |-> None, input |-> None]

WorkerStart ==
  /\ moduleCache = EmptyObject
  /\ loadCount = [m \in ModuleNames |-> 0]
  /\ amdPending = {}
  /\ requests = << >>

ShapeStart ==
  /\ descs = [i \in 1..2 |-> None]
  /\ callerArray = << >>
  /\ moduleScratch = InitialScratch(shape)
  /\ packedFrom = [i \in 1..2 |-> None]
  /\ last = NoLast
  /\ held = [i \in 1..2 |-> NotUnpackedYet]

\* The dispatcher's worker, in any of the loader's environments.
Init ==
  /\ env \in Environments
  /\ WorkerStart
  /\ shape = "circle"
  /\ ShapeStart

\* The worker receives a message {id, parameters: {subTasks}}: the wrapped
\* createGeometry runs to its return, and the response is posted if the batch
\* is settled by then.
HandleMessage ==
  /\ Len(requests) < MaxRequests
  /\ \E subTasks \in Batches(MaxSubTasks - SubTasksSoFar) :
       \E outs \in OutcomesOf(subTasks) :
         LET r == createGeometry(env, [cache |-> moduleCache, loads |-> loadCount,
                                       pending |-> amdPending],
                                 Len(requests) + 1, subTasks, outs)
         IN  /\ moduleCache' = r.w.cache
             /\ loadCount' = r.w.loads
             /\ amdPending' = r.w.pending
             /\ requests' = Append(requests, createTaskProcessorWorker(r.batch))
  /\ UNCHANGED << env, shapeVars >>

\* A pending promise of batch r settles: fulfilled with its geometry or
\* rejected.  when.all then fulfils or rejects the batch, and the wrapper posts.
SettlePromise ==
  \E r \in 1..Len(requests) : \E i \in 1..Len(requests[r].slots) :
    \E how \in {"fulfilled", "rejected"} :
      /\ requests[r].slots[i].state = "pending"
      /\ LET b == [requests[r] EXCEPT
                     !.settleOrder = Append(@, i),
                     !.slots[i].state = how,
                     !.slots[i].error =
                       IF how = "rejected" THEN Some(CreationError(i)) ELSE None]
         IN  requests' = [requests EXCEPT ![r] = createTaskProcessorWorker(whenAll(b))]
      /\ UNCHANGED << env, moduleCache, loadCount, amdPending, shapeVars >>

\* A deferred AMD require callback runs: function (f) { module = f;
\* moduleCache[module] = f; }.  The loader never calls back for a module it
\* cannot find.
RequireCallback ==
  \E m \in amdPending :
    /\ amdPending' = amdPending \ {m}
    /\ moduleCache' = IF defined(Require(m))
                        THEN Put(moduleCache, FunctionToString(Require(m)[1]), Require(m)[1])
                        ELSE moduleCache
    /\ UNCHANGED << env, loadCount, requests, shapeVars >>

Next == HandleMessage \/ SettlePromise \/ RequireCallback

Spec == Init /\ [][Next]_vars

\* ------------------------------------------------- a shape module's calls
\* One shape module, loaded, and a caller that constructs, packs, unpacks and
\* creates.
InitShape ==
  /\ env = "commonjs"
  /\ WorkerStart
  /\ shape \in Shapes
  /\ ShapeStart

\* The caller's script goes on: no call of it threw (nothing catches), and it
\* has calls left.
CanCall == ~last.threw /\ last.n < MaxCalls

\* d = new X(options), into one of the caller's variables.
ConstructShape ==
  /\ CanCall
  /\ \E slot \in 1..2 : \E options \in OptionsOf(shape) :
    \E r \in {Construct(shape, options)} :
        /\ descs' = IF r.threw THEN descs ELSE [descs EXCEPT ![slot] = r.value]
        /\ held' = IF r.threw THEN held ELSE [held EXCEPT ![slot] = NotUnpackedYet]
        /\ last' = [NoLast EXCEPT !.n = last.n + 1, !.op = "construct", !.threw = r.threw,
                                  !.error = r.error, !.slot = slot,
                                  !.input = options, !.value = r.value]
        /\ UNCHANGED << callerArray, moduleScratch, packedFrom, shape, workerVars >>

\* X.pack(d, callerArray, startingIndex); slot 0 is an absent value.
PackShape ==
  /\ CanCall
  /\ \E slot \in 0..2 : \E startingIndex \in StartingIndexes :
    LET value == IF slot = 0 THEN None ELSE descs[slot]
        r == Pack(shape, value, callerArray, startingIndex)
    IN  /\ callerArray' = IF r.threw THEN callerArray ELSE r.value
        /\ packedFrom' = IF r.threw THEN packedFrom
                         ELSE [packedFrom EXCEPT ![SliceOf(startingIndex)] = value]
        /\ last' = [NoLast EXCEPT !.n = last.n + 1, !.op = "pack", !.threw = r.threw,
                                  !.error = r.error, !.slot = slot,
                                  !.offset = startingIndex]
        /\ UNCHANGED << descs, moduleScratch, held, shape, workerVars >>

\* d = X.unpack(callerArray, startingIndex) into the variable dest, or
\* X.unpack(callerArray, startingIndex, d) with the description of the variable res.
UnpackShape ==
  /\ CanCall
  /\ shape \in {"circle", "sphere"}
  /\ \E startingIndex \in StartingIndexes : \E res \in 0..2 : \E dest \in 1..2 :
       /\ res # 0 => (dest = res /\ defined(descs[res]))
       /\ \E r \in {Unpack(shape, moduleScratch, callerArray, startingIndex,
                          IF res = 0 THEN None ELSE descs[res])} :
              /\ moduleScratch' = r.scratch
              /\ descs' = [i \in 1..2 |->
                             IF i = dest /\ ~r.threw THEN r.value
                             ELSE SeenAfter(shape, descs[i], held[i].refs, r.scratch)]
              /\ held' = IF r.threw THEN held
                         ELSE [held EXCEPT
                                 ![dest] = [unpacked |-> TRUE,
                                            refs |-> UnpackRefs(shape, IF res = 0 THEN None
                                                                       ELSE descs[res])]]
              /\ last' = [NoLast EXCEPT !.n = last.n + 1, !.op = "unpack", !.threw = r.threw,
                                        !.error = r.error, !.slot = dest,
                                        !.offset = startingIndex,
                                        !.usedResult = (res # 0),
                                        !.value = r.value]
  /\ UNCHANGED << callerArray, packedFrom, shape, workerVars >>

\* createXGeometry(arg, offset): arg is the callerArray (sel 0) or the description
\* of one of the caller's variables.  The entrypoints that clone the center
\* and the ellipsoid store the clones in the description they were given.
CreateShape ==
  /\ CanCall
  /\ \E sel \in 0..2 : \E offset \in StartingIndexes :
    LET arg == IF sel = 0 THEN ArrayArg(callerArray) ELSE ObjectArg(descs[sel])
        r == CreateEntry(shape, moduleScratch, arg, offset)
    IN  /\ moduleScratch' = r.scratch
        /\ descs' = [i \in 1..2 |->
                       IF i = sel /\ ~defined(offset) /\ ~r.threw THEN r.description
                       ELSE SeenAfter(shape, descs[i], held[i].refs, r.scratch)]
        /\ last' = [NoLast EXCEPT !.n = last.n + 1, !.op = "create", !.threw = r.threw,
                                  !.error = r.error, !.slot = sel,
                                  !.offset = offset,
                                  !.unpackedAt = r.unpackedAt,
                                  !.value = r.value,
                                  !.description = r.description]
        /\ UNCHANGED << callerArray, packedFrom, held, shape, workerVars >>

NextShape == ConstructShape \/ PackShape \/ UnpackShape \/ CreateShape

SpecShape == InitShape /\ [][NextShape]_vars

\* ============================================================ properties
\* ------------------------------------------------------------ dispatcher
\* The sub-tasks of batch b whose creation function was called.
CalledTasks(b) == { b.calls[k].task : k \in 1..Len(b.calls) }
\* The sub-tasks of batch b whose creation raised a condition: the function
\* was called and threw, or its pending result failed.
FailedTasks(b) ==
  { i \in 1..Len(b.subTasks) :
      \/ i \in CalledTasks(b) /\ b.outcomes[i] = "throw"
      \/ b.slots[i].state = "rejected" }
\* The result of sub-task i of batch b: what its creation function returns or
\* resolves with, or the geometry passed through.
ResultOfTask(b, i) ==
  LET task == b.subTasks[i]
  IN  IF ~defined(task.moduleName) THEN PassedGeometry(task.geometry)
      ELSE IF b.outcomes[i] = "undefined" THEN UndefinedValue
      ELSE CreatedGeometry(task.moduleName[1], task.geometry, task.offset)

\* C1: in every batch the i-th element of the results array handed to
\* packCreateGeometryResults is the result of subTasks[i], whatever the order
\* in which the pending results completed and whatever the cache held.
C1_ResultsInTaskOrder ==
  \A r \in 1..Len(requests) :
    LET b == requests[r]
    IN  defined(b.packed) =>
          /\ Len(b.packed[1]) = Len(b.subTasks)
          /\ \A i \in 1..Len(b.subTasks) : b.packed[1][i] = ResultOfTask(b, i)
          /\ \A i \in 1..Len(b.subTasks) : b.manifest[1][i].from = ResultOfTask(b, i)

\* A batch of two different sub-tasks whose pending results completed in the
\* reverse order, packed.
C1_Witness ==
  \E r \in 1..Len(requests) :
    /\ requests[r].settleOrder = << 2, 1 >>
    /\ requests[r].subTasks[1] # requests[r].subTasks[2]
    /\ requests[r].state = "fulfilled"
    /\ defined(requests[r].packed)

\* C2: for a batch of N sub-tasks packCreateGeometryResults is invoked at most
\* once, only when all N results are available, and exactly once for a batch
\* that completes with a manifest; the manifest is built from N results.
C2_PackedOnceAfterAll ==
  \A r \in 1..Len(requests) :
    LET b == requests[r]
    IN  /\ b.packCalls <= 1
        /\ (b.state = "fulfilled") <=> (b.packCalls = 1)
        /\ b.packCalls = 1 =>
             /\ \A i \in 1..Len(b.slots) : b.slots[i].state \in {"value", "fulfilled"}
             /\ Len(b.packed[1]) = Len(b.subTasks)
             /\ Len(b.manifest[1]) = Len(b.subTasks)
        /\ b.packCalls = 0 => ~defined(b.manifest) /\ ~defined(b.packed)

\* A batch of two pending results, packed once both completed.
C2_Witness ==
  \E r \in 1..Len(requests) :
    /\ Len(requests[r].settleOrder) = 2
    /\ requests[r].packCalls = 1
    /\ Len(requests[r].manifest[1]) = 2

\* C3: if the creation of any sub-task of a batch raises a condition (thrown
\* by the creation function or delivered as a failed pending result), the
\* batch fails with the condition of a failed sub-task (or with that of a
\* module that did not resolve earlier in the loop), the packer is never
\* invoked for the batch, and nothing is reported as succeeded.
C3_FailureFailsBatch ==
  \A r \in 1..Len(requests) :
    LET b == requests[r]
    IN  FailedTasks(b) # {} =>
          /\ b.state \in {"threw", "rejected"}
          /\ b.state = "rejected" =>
               b.error \in { Some(CreationError(i)) : i \in FailedTasks(b) }
          /\ b.state = "threw" =>
               b.error \in { Some(CreationError(i)) : i \in FailedTasks(b) }
                             \cup { Some(ModuleError(i)) : i \in 1..Len(b.subTasks) }
                             \cup { Some(TypeError(i)) : i \in 1..Len(b.subTasks) }
          /\ b.packCalls = 0
          /\ ~defined(b.packed) /\ ~defined(b.manifest)
          /\ Len(b.posted) = 1
          /\ ~defined(b.posted[1].result)
          /\ b.posted[1].error = b.error

\* A batch whose first result completed and whose second failed; and a batch
\* whose second creation function threw after the first returned a geometry.
C3_Witness ==
  \E r \in 1..Len(requests) :
    /\ Len(requests[r].subTasks) = 2
    /\ requests[r].slots[1].state \in {"fulfilled", "value"}
    /\ requests[r].slots[1].value.kind = "created"
    /\ FailedTasks(requests[r]) = {2}
    /\ requests[r].state \in {"rejected", "threw"}

\* C4: the load mechanism is invoked at most once for a module name in one
\* lifetime of the worker.
C4_LoadedAtMostOnce ==
  \A m \in ResolvableModules : loadCount[m] <= 1

\* C7: every request handled by the wrapped createGeometry gets at most one
\* response, exactly one once its batch is settled or the handler threw; the
\* response carries the request's id and either the complete manifest or
\* the error, never both; no two requests share an id.
C7_OneResponsePerRequest ==
  \A r \in 1..Len(requests) :
    LET b == requests[r]
    IN  /\ Len(b.posted) <= 1
        /\ (b.state # "pending") <=> (Len(b.posted) = 1)
        /\ \A q \in 1..Len(requests) : requests[q].id = b.id => q = r
        /\ \A k \in 1..Len(b.posted) :
             LET m == b.posted[k]
             IN  /\ m.id = b.id
                 /\ defined(m.result) # defined(m.error)
                 /\ b.state = "fulfilled" =>
                      /\ m.result = b.manifest
                      /\ Len(m.result[1]) = Len(b.subTasks)
                 /\ b.state \in {"threw", "rejected"} =>
                      /\ defined(b.error)
                      /\ m.error = b.error

\* The second request is answered with the error its handler threw while the
\* first is still in flight.
C7_Witness ==
  /\ Len(requests) = 2
  /\ requests[1].state = "pending"
  /\ requests[1].posted = << >>
  /\ requests[2].state = "threw"
  /\ Len(requests[2].posted) = 1
  /\ requests[2].posted[1].id = 2

\* The sub-tasks of a batch that name a module with no implementation.
Unresolvable(b) ==
  { i \in 1..Len(b.subTasks) :
      /\ defined(b.subTasks[i].moduleName)
      /\ b.subTasks[i].moduleName[1] \notin ResolvableModules }

\* C8: a sub-task whose moduleName has no resolvable implementation fails the
\* whole batch: the handler throws, no creation function is called for that
\* sub-task or a later one, the packer is not invoked, no manifest is emitted
\* and the response is an error.
C8_UnresolvableFailsBatch ==
  \A r \in 1..Len(requests) :
    LET b == requests[r]
    IN  \A i \in Unresolvable(b) :
          /\ b.state = "threw"
          /\ defined(b.error)
          /\ \A j \in CalledTasks(b) : j < i
          /\ \A j \in i..Len(b.slots) : b.slots[j] = HoleSlot
          /\ b.packCalls = 0
          /\ ~defined(b.manifest)
          /\ Len(b.posted) = 1 /\ ~defined(b.posted[1].result)

\* A batch whose first sub-task names the missing module and whose second
\* names a real one.
C8_Witness ==
  \E r \in 1..Len(requests) :
    /\ Len(requests[r].subTasks) = 2
    /\ Unresolvable(requests[r]) = {1}
    /\ requests[r].state = "threw"
    /\ requests[r].error = Some(ModuleError(1))

\* The worker state the loop body runs on.
WorkerState == [cache |-> moduleCache, loads |-> loadCount, pending |-> amdPending]

\* C10: a sub-task without a moduleName is passed through: its result slot
\* holds its geometry, no creation function is called for it, and the loop
\* body on it leaves the module cache, the load counts and the pending loads
\* as they were.
C10_PassThrough ==
  /\ \A r \in 1..Len(requests) :
       LET b == requests[r]
       IN  \A i \in 1..Len(b.subTasks) :
             ~defined(b.subTasks[i].moduleName) =>
               /\ i \notin CalledTasks(b)
               /\ b.slots[i] \in {ValueSlot(PassedGeometry(b.subTasks[i].geometry)), HoleSlot}
               /\ b.state # "threw" =>
                    b.slots[i] = ValueSlot(PassedGeometry(b.subTasks[i].geometry))
               /\ defined(b.packed) =>
                    b.packed[1][i] = PassedGeometry(b.subTasks[i].geometry)
               /\ Len(b.subTasks) = 1 => b.cacheAfter = b.cacheBefore
  /\ \A task \in SubTasks :
       ~defined(task.moduleName) =>
         LET acc == [w |-> WorkerState, slots |-> << HoleSlot >>,
                     calls |-> << >>, threw |-> None]
             after == loopBody(env, acc, task, 1, "geometry")
         IN  /\ after.w = WorkerState
             /\ after.calls = << >>
             /\ after.threw = None
             /\ after.slots = << ValueSlot(PassedGeometry(task.geometry)) >>

\* A pass-through sub-task handled after a module was cached, in a batch that
\* completed.
C10_Witness ==
  \E r \in 1..Len(requests) :
    /\ requests[r].cacheBefore # EmptyObject
    /\ Len(requests[r].subTasks) = 1
    /\ ~defined(requests[r].subTasks[1].moduleName)
    /\ requests[r].state = "fulfilled"
    /\ requests[r].packed[1][1] = PassedGeometry(requests[r].subTasks[1].geometry)

\* --------------------------------------------------- shape descriptions
\* The description last packed into the slice a starting index names.
PackedAt(startingIndex) == packedFrom[SliceOf(startingIndex)]

\* The valid descriptions of shape s: those its constructor returns for
\* numeric parameters.
ValidDescriptionsOf ==
  [s \in Shapes |->
     { Construct(s, o).value :
         o \in { x \in OptionsOf(s) :
                   /\ defined(x)
                   /\ typeOfNumber(defaultValue(x[1].radius, Num(DefaultRadius)))
                   /\ ~Construct(s, x).threw } }]
ValidDescriptions(s) == ValidDescriptionsOf[s]

\* C5: unpacking, at the index it was packed at, a valid circle-outline or
\* sphere-outline description yields a description whose canonical base
\* description equals the packed one's in every field.
C5_PackUnpackRoundTrip ==
  (/\ last.op = "unpack"
   /\ ~last.usedResult
   /\ PackedAt(last.offset) \in ValidDescriptions(shape))
    => /\ ~last.threw
       /\ defined(last.value)
       /\ BaseOf(shape, last.value[1]) = BaseOf(shape, PackedAt(last.offset)[1])

\* A circle with every parameter set, packed into the second slice and
\* unpacked from it.
C5_Witness ==
  /\ shape = "circle"
  /\ last.op = "unpack"
  /\ ~last.usedResult
  /\ ~last.threw
  /\ last.offset = Num(EllipseOutlineGeometry_packedLength)
  /\ defined(PackedAt(last.offset))
  /\ last.value[1]._ellipseGeometry._height = Num(4)
  /\ last.value[1]._ellipseGeometry._semiMajorAxis = Num(3)

\* The radius the options of a constructor call give.
RadiusGiven(options) == defaultValue(options, Some(NoOptions))[1].radius

C9_OffsetDecidesUnpack ==
  [][ (last'.op = "create" /\ last'.n = last.n + 1) =>
        /\ defined(last'.offset) =>
             /\ last'.unpackedAt = << last'.offset >>
             /\ (last'.slot = 0 /\ PackedAt(last'.offset) \in ValidDescriptions(shape)) =>
                  /\ ~last'.threw
                  /\ BaseOf(shape, last'.description[1])
                       = BaseOf(shape, PackedAt(last'.offset)[1])
        /\ ~defined(last'.offset) =>
             /\ last'.unpackedAt = << >>
             /\ moduleScratch' = moduleScratch
             /\ last'.slot = 0 => last'.threw
             /\ (~last'.threw) =>
                  BaseOf(shape, last'.description[1]) = BaseOf(shape, descs[last'.slot][1])
    ]_vars

\* A packed array handed to an entrypoint with offset 0.
C9_Witness ==
  /\ last.op = "create"
  /\ last.slot = 0
  /\ last.offset = Num(0)
  /\ last.unpackedAt = << Num(0) >>
  /\ ~last.threw
  /\ defined(last.value)

\* ------------------------------------- degenerate descriptions (dispatcher)
\* The options of shape s that give a radius of zero.
RadiusZero(s) == { o \in OptionsOf(s) : defined(o) /\ o[1].radius = Num(0) }

\* The sub-tasks of batch b whose creation function was called and returned
\* undefined.
UndefinedTasks(b) ==
  { i \in CalledTasks(b) : b.outcomes[i] = "undefined" }

\* The creation entrypoint of shape s on the description d, handed over as
\* an object and as a packed array with offset 0, in a freshly loaded module.
EntryOnObject(s, d) == CreateEntry(s, InitialScratch(s), ObjectArg(d), None)
EntryOnPacked(s, d) ==
  CreateEntry(s, InitialScratch(s), ArrayArg(Pack(s, d, << >>, Num(0)).value), Num(0))

\* What the entrypoints of the circle and sphere outlines do with the
\* descriptions of radius 0, handed over as an object and packed: the values
\* returned, and a mark for a call (of the constructor or the entrypoint)
\* that raises.
RadiusZeroEntryReturns ==
  UNION { UNION { { IF Construct(s, o).threw \/ EntryOnObject(s, Construct(s, o).value).threw
                      THEN Some([thrown |-> TRUE]) ELSE EntryOnObject(s, Construct(s, o).value).value,
                    IF Construct(s, o).threw \/ EntryOnPacked(s, Construct(s, o).value).threw
                      THEN Some([thrown |-> TRUE]) ELSE EntryOnPacked(s, Construct(s, o).value).value } :
                  o \in RadiusZero(s) } :
          s \in {"circle", "sphere"} }

AxesOf(s, d) ==
  IF s = "circle"
    THEN << d._ellipseGeometry._semiMajorAxis, d._ellipseGeometry._semiMinorAxis >>
    ELSE d._ellipsoidGeometry._radii[1]
AllEqualTo(axes, v) == \A i \in DOMAIN axes : axes[i] = v

\* The radius a constructor call takes from its options.
RadiusTaken(s, options) ==
  IF s = "circle" THEN RadiusGiven(options)
  ELSE defaultValue(RadiusGiven(options), Num(DefaultRadius))

\* C12: every circle-outline description the caller holds has equal semi-axes
\* and every sphere-outline description three equal radii; a constructed one
\* has them equal to the radius the constructor took, and one unpacked (with
\* or without a result) from a slice a valid description was packed into has
\* them equal to the radius of the packed description.
C12_AxesEqualRadius ==
  shape \in {"circle", "sphere"} =>
    /\ \A i \in 1..2 :
         defined(descs[i]) => AllEqualTo(AxesOf(shape, descs[i][1]), AxesOf(shape, descs[i][1])[1])
    /\ (last.op = "construct" /\ ~last.threw) =>
         AllEqualTo(AxesOf(shape, last.value[1]), RadiusTaken(shape, last.input))
    /\ (/\ last.op = "unpack"
        /\ PackedAt(last.offset) \in ValidDescriptions(shape)) =>
         /\ ~last.threw
         /\ AllEqualTo(AxesOf(shape, last.value[1]),
                       AxesOf(shape, PackedAt(last.offset)[1])[1])
         /\ last.value = descs[last.slot]

\* A circle of radius 3 unpacked with a result supplied, while the caller's
\* other description has radius 2.
C12_Witness ==
  /\ shape = "circle"
  /\ last.op = "unpack"
  /\ last.usedResult
  /\ ~last.threw
  /\ PackedAt(last.offset) \in ValidDescriptions(shape)
  /\ AxesOf(shape, PackedAt(last.offset)[1]) = << Num(3), Num(3) >>
  /\ defined(descs[3 - last.slot])
  /\ AxesOf(shape, descs[3 - last.slot][1]) = << Num(2), Num(2) >>
  /\ AxesOf(shape, last.value[1]) = << Num(3), Num(3) >>

\* ---------------------------------------------------------- dispatcher, II
\* The module names the batches received so far asked getModule for.
RequestedModules ==
  UNION { { requests[r].subTasks[i].moduleName[1] :
              i \in { j \in 1..Len(requests[r].subTasks) :
                        defined(requests[r].subTasks[j].moduleName) } } :
          r \in 1..Len(requests) }

\* C13: the module cache maps requested module names to their creation
\* functions: every key is a module name getModule was asked for, and the
\* entry under it is the function the loader resolves that name to.
C13_CacheKeyedByModuleName ==
  \A k \in DOMAIN moduleCache :
    /\ k \in RequestedModules
    /\ Some(moduleCache[k]) = Require(k)

\* The sub-tasks of batch b that name a module the loader can deliver.
Resolvable(b) ==
  { i \in 1..Len(b.subTasks) :
      /\ defined(b.subTasks[i].moduleName)
      /\ b.subTasks[i].moduleName[1] \in ResolvableModules }

\* C14: when the loader delivers a module after getModule returned, the
\* dispatcher never calls an undefined creation function for a sub-task that
\* names it: no batch fails with the TypeError of such a call, and a batch
\* that is settled without a creation failure or a missing module is
\* fulfilled with the sub-task's result at its index.
C14_AsyncLoadDeferred ==
  env = "amd_async" =>
    \A r \in 1..Len(requests) :
      LET b == requests[r]
      IN  \A i \in Resolvable(b) :
            /\ b.error # Some(TypeError(i))
            /\ (b.state # "pending" /\ FailedTasks(b) = {} /\ Unresolvable(b) = {}) =>
                 /\ b.state = "fulfilled"
                 /\ b.packed[1][i] = ResultOfTask(b, i)

\* The sub-tasks of batch b that name a module.
ModuleTasks(b) ==
  { i \in 1..Len(b.subTasks) : defined(b.subTasks[i].moduleName) }

\* The calls of batch b are made in index order, none twice, each for a
\* sub-task that names a module, with the function of that module and the
\* sub-task's own geometry and offset.
CallsInOrderWithOwnArguments(b) ==
  /\ \A k \in 1..Len(b.calls) : \A l \in 1..Len(b.calls) :
       k < l => b.calls[k].task < b.calls[l].task
  /\ \A k \in 1..Len(b.calls) :
       LET c == b.calls[k]
       IN  /\ c.task \in ModuleTasks(b)
           /\ c.by = b.subTasks[c.task].moduleName
           /\ c.geometry = b.subTasks[c.task].geometry
           /\ c.offset = b.subTasks[c.task].offset

\* C15 as stated: in every batch handled, the creation function of every
\* sub-task with a moduleName is invoked exactly once, with the sub-task's
\* own geometry and offset, in index order.
C15_EachTaskCalledOnce ==
  \A r \in 1..Len(requests) :
    /\ CallsInOrderWithOwnArguments(requests[r])
    /\ CalledTasks(requests[r]) = ModuleTasks(requests[r])

\* C15: in every batch the creation functions are invoked in index order, at
\* most once per sub-task, each with the sub-task's own geometry and offset;
\* every sub-task with a moduleName is invoked exactly once when the handler
\* did not throw, and when it threw at sub-task e exactly the sub-tasks with
\* a moduleName before e are invoked, and e itself if its function threw.
C15_CalledOnceUntilThrow ==
  \A r \in 1..Len(requests) :
    LET b == requests[r]
    IN  /\ CallsInOrderWithOwnArguments(b)
        /\ b.state # "threw" => CalledTasks(b) = ModuleTasks(b)
        /\ b.state = "threw" =>
             CalledTasks(b) =
               { i \in ModuleTasks(b) :
                   \/ i < b.error[1].task
                   \/ i = b.error[1].task /\ b.error[1].kind = "creation" }

\* A batch of two module sub-tasks with different geometries, both invoked,
\* the first with no offset and the second with offset 0; the handler did not
\* throw.
C15_Witness ==
  \E r \in 1..Len(requests) :
    /\ Len(requests[r].calls) = 2
    /\ requests[r].calls[1].task = 1
    /\ requests[r].calls[2].task = 2
    /\ requests[r].calls[1].offset = None
    /\ requests[r].calls[2].offset = Some(0)
    /\ requests[r].calls[1].geometry # requests[r].calls[2].geometry
    /\ requests[r].state # "threw"

\* ------------------------------------------------ shape descriptions, III
\* C16: no description the caller holds refers to a scratch object of the
\* module, and a call of unpack (by the caller or by the creation entrypoint
\* given an offset) leaves every description held in another variable of
\* the caller, a description an earlier unpack returned included, with all
\* its fields as they were.
C16_ScratchNotRetained ==
  [][ (/\ last'.n = last.n + 1
       /\ shape \in {"circle", "sphere"}
       /\ last'.op = "unpack" \/ (last'.op = "create" /\ defined(last'.offset))) =>
        /\ \A i \in 1..2 : held'[i].refs = {}
        /\ \A i \in 1..2 :
             (last'.op = "unpack" => i # last'.slot) => descs'[i] = descs[i]
    ]_vars

\* A sphere unpacked from the first slice is held in one variable while a
\* later unpack, of the other slice, wrote other radii over the scratch state
\* and returned another sphere.
C16_Witness ==
  /\ shape = "sphere"
  /\ last.op = "unpack"
  /\ ~last.threw
  /\ last.offset = Num(EllipsoidOutlineGeometry_packedLength)
  /\ held[3 - last.slot].unpacked
  /\ defined(PackedAt(Num(0)))
  /\ descs[3 - last.slot][1]._ellipsoidGeometry._radii = Some(Cartesian3(Num(3), Num(3), Num(3)))
  /\ moduleScratch.scratchEllipsoidGeometry._radii
       # descs[3 - last.slot][1]._ellipsoidGeometry._radii
  /\ descs[last.slot] # descs[3 - last.slot]

\* unpack(callerArray, startingIndex) without a result, called on the module's
\* present scratch state.
UnpackWithoutResult(startingIndex) ==
  Unpack(shape, moduleScratch, callerArray, startingIndex, None)

\* The description v is the description d with another canonical base: every
\* other field of d is kept.
SameObjectNewBase(s, v, d) ==
  IF s = "circle"
    THEN v[1] = [d[1] EXCEPT !._ellipseGeometry = v[1]._ellipseGeometry]
    ELSE v[1] = [d[1] EXCEPT !._ellipsoidGeometry = v[1]._ellipsoidGeometry]

\* C17: unpack with a result supplied, on a slice a valid description was
\* packed into, raises nothing, returns the result it was given with a new
\* canonical base (the caller's variable holds what was returned), and that
\* base equals, field by field, the base of the description unpack without a
\* result returns for the same slice in the same state of the module.
C17_UnpackIntoResultEquivalent ==
  [][ (/\ last'.n = last.n + 1
       /\ last'.op = "unpack"
       /\ last'.usedResult
       /\ PackedAt(last'.offset) \in ValidDescriptions(shape)) =>
        /\ ~last'.threw
        /\ descs'[last'.slot] = last'.value
        /\ SameObjectNewBase(shape, last'.value, descs[last'.slot])
        /\ ~UnpackWithoutResult(last'.offset).threw
        /\ BaseOf(shape, last'.value[1])
             = BaseOf(shape, UnpackWithoutResult(last'.offset).value[1])
    ]_vars

\* A sphere with every parameter set, unpacked from the second slice into a
\* description the caller already held.
C17_Witness ==
  /\ shape = "sphere"
  /\ last.op = "unpack"
  /\ last.usedResult
  /\ ~last.threw
  /\ last.offset = Num(EllipsoidOutlineGeometry_packedLength)
  /\ PackedAt(last.offset) \in ValidDescriptions(shape)
  /\ last.value[1]._ellipsoidGeometry._radii = Some(Cartesian3(Num(3), Num(3), Num(3)))
  /\ last.value[1]._ellipsoidGeometry._stackPartitions = Num(4)
  /\ last.value[1]._workerName = "createSphereOutlineGeometry"

\* packedLength of a circle outline or a sphere outline.
PackedLength(s) ==
  IF s = "circle" THEN CircleOutlineGeometry_packedLength
  ELSE SphereOutlineGeometry_packedLength

\* The elements of array from index k on, packedLength of them, with every
\* element outside them removed.
SliceOnly(s, array, k) ==
  [i \in 1..(k + PackedLength(s)) |-> IF i > k THEN At(array, i - 1) ELSE None]

\* What unpack did (u) is to return a description whose base equals the base
\* of d.
RecoveredBy(s, u, d) == ~u.threw /\ BaseOf(s, u.value[1]) = BaseOf(s, d[1])

\* The base of the description unpack without a result returns from the slice
\* at startingIndex of array, in the scratch state sc, equals the base of d.
Recovers(s, sc, array, startingIndex, d) ==
  RecoveredBy(s, Unpack(s, sc, array, startingIndex, None), d)

\* C18: a pack of a circle or sphere outline at index k changes only the
\* elements k .. k + packedLength - 1 of the array (which grows to hold them);
\* an unpack at k returns what it returns from those elements alone; and after
\* every pack and every unpack each slice a valid description was packed into
\* is recovered by unpack at its index, whatever the other slice holds.
C18_DisjointSlices ==
  [][ (last'.n = last.n + 1 /\ shape \in {"circle", "sphere"}) =>
        /\ (last'.op = "pack" /\ ~last'.threw) =>
             /\ \A j \in 0..(Len(callerArray') + 1) :
                  (\/ j < defaultValue(last'.offset, Num(0))[1]
                   \/ j >= defaultValue(last'.offset, Num(0))[1] + PackedLength(shape))
                    => At(callerArray', j) = At(callerArray, j)
             /\ \A j \in 0..(PackedLength(shape) - 1) :
                  At(callerArray', defaultValue(last'.offset, Num(0))[1] + j)
                    = At(Pack(shape, descs[last'.slot], << >>, Num(0)).value, j)
        /\ (last'.op = "unpack" /\ ~last'.usedResult) =>
             /\ last'.value =
                  Unpack(shape, moduleScratch,
                         SliceOnly(shape, callerArray, defaultValue(last'.offset, Num(0))[1]),
                         last'.offset, None).value
             /\ callerArray' = callerArray
        /\ last'.op \in {"pack", "unpack"} =>
             \A k \in {Num(0), Num(PackedLength(shape))} :
               packedFrom'[SliceOf(k)] \in ValidDescriptions(shape) =>
                 Recovers(shape, moduleScratch', callerArray', k, packedFrom'[SliceOf(k)])
    ]_vars

\* Two different valid descriptions packed one after the other into the two
\* slices of the array, the second slice last.
C18_Witness ==
  /\ shape \in {"circle", "sphere"}
  /\ last.op = "pack"
  /\ ~last.threw
  /\ last.offset = Num(PackedLength(shape))
  /\ Len(callerArray) = 2 * PackedLength(shape)
  /\ packedFrom[1] \in ValidDescriptions(shape)
  /\ packedFrom[2] \in ValidDescriptions(shape)
  /\ BaseOf(shape, packedFrom[1][1]) # BaseOf(shape, packedFrom[2][1])
  /\ Recovers(shape, moduleScratch, callerArray, Num(0), packedFrom[1])

\* The value a pack call of the caller hands over is absent: no value at all,
\* or a variable that holds no description.
AbsentValue(slot) == slot = 0 \/ ~defined(descs[slot])

\* C19: pack of a circle or sphere outline called with an absent value raises
\* the DeveloperError of the check of its value, whatever the starting index,
\* and the array and the slices packed so far stay as they were.
C19_PackAbsentValueThrows ==
  [][ (/\ last'.n = last.n + 1
       /\ shape \in {"circle", "sphere"}
       /\ last'.op = "pack"
       /\ AbsentValue(last'.slot)) =>
        /\ last'.threw
        /\ last'.error = "DeveloperError: Expected value to be typeof object"
        /\ callerArray' = callerArray
        /\ packedFrom' = packedFrom
    ]_vars

\* A pack without a value at the second slice of an array that holds a packed
\* description in its first.
C19_Witness ==
  /\ shape \in {"circle", "sphere"}
  /\ last.op = "pack"
  /\ last.slot = 0
  /\ last.offset = Num(PackedLength(shape))
  /\ last.threw
  /\ Len(callerArray) = PackedLength(shape)
  /\ defined(packedFrom[1])
  /\ ~defined(packedFrom[2])

\* createXGeometry(d) with no offset, on the module's scratch state sc.
EntryWithoutOffset(s, sc, d) == CreateEntry(s, sc, ObjectArg(d), None)

\* C20: the circle-outline and ellipse entrypoints given a description and no
\* offset leave the description with every field equal in value to what it
\* was (the center and the ellipsoid are clones, equal in value), return the
\* geometry of that description, leave the module's scratch state alone, and
\* called once more on the description return the same geometry.
C20_EntryKeepsDescription ==
  [][ (/\ last'.n = last.n + 1
       /\ shape \in {"circle", "ellipse"}
       /\ last'.op = "create"
       /\ ~defined(last'.offset)
       /\ last'.slot # 0
       /\ defined(descs[last'.slot])) =>
        /\ ~last'.threw
        /\ descs'[last'.slot] = descs[last'.slot]
        /\ last'.description = descs[last'.slot]
        /\ BaseOf(shape, descs'[last'.slot][1])._center
             = Cartesian3_clone(BaseOf(shape, descs[last'.slot][1])._center)
        /\ BaseOf(shape, descs'[last'.slot][1])._ellipsoid
             = Ellipsoid_clone(BaseOf(shape, descs[last'.slot][1])._ellipsoid)
        /\ moduleScratch' = moduleScratch
        /\ ~EntryWithoutOffset(shape, moduleScratch', descs'[last'.slot]).threw
        /\ EntryWithoutOffset(shape, moduleScratch', descs'[last'.slot]).value = last'.value
        /\ EntryWithoutOffset(shape, moduleScratch', descs'[last'.slot]).description
             = descs'[last'.slot]
    ]_vars

\* A circle outline on the unit sphere, handed to the entrypoint without an
\* offset after two earlier calls, with a geometry returned.
C20_Witness ==
  /\ shape = "circle"
  /\ last.op = "create"
  /\ last.n >= 3
  /\ last.slot # 0
  /\ ~defined(last.offset)
  /\ ~last.threw
  /\ defined(last.value)
  /\ last.description = descs[last.slot]
  /\ descs[last.slot][1]._ellipseGeometry._ellipsoid = Ellipsoid_UNIT_SPHERE
  /\ descs[last.slot][1]._ellipseGeometry._center = CenterOrigin

\* ------------------------------------------------- shape descriptions, IV
\* What unpack(array, startingIndex, result) does in a module whose unpack
\* was never called before: the scratch state is the one of the module's load.
UnpackWithoutHistory(s, array, startingIndex, result) ==
  Unpack(s, InitialScratch(s), array, startingIndex, result)

\* Two calls of unpack come out alike: both raise the same condition, or both
\* return equal descriptions.
SameOutcome(u, v) ==
  /\ u.threw = v.threw
  /\ u.error = v.error
  /\ u.value = v.value

\* C21: whatever earlier unpack calls left in the module's scratch state, a
\* call of unpack raises or returns what the same call (same array, starting
\* index and result) raises or returns in a module whose unpack was never
\* called: the outcome depends on the slice and the result alone.
C21_UnpackIndependentOfHistory ==
  [][ (/\ last'.n = last.n + 1
       /\ shape \in {"circle", "sphere"}
       /\ last'.op = "unpack") =>
        SameOutcome([threw |-> last'.threw, error |-> last'.error, value |-> last'.value],
                    UnpackWithoutHistory(shape, callerArray, last'.offset,
                                         IF last'.usedResult THEN descs[last'.slot]
                                         ELSE None))
    ]_vars

\* A circle outline unpacked without a result after an earlier unpack with a
\* result, which left its semi-axes in scratchOptions, and after an unpack
\* whose description the caller still holds.
C21_Witness ==
  /\ shape = "circle"
  /\ last.op = "unpack"
  /\ ~last.usedResult
  /\ ~last.threw
  /\ moduleScratch.scratchOptions.semiMajorAxis = Num(3)
  /\ moduleScratch.scratchOptions.semiMinorAxis = Num(3)
  /\ moduleScratch.scratchOptions.radius = Num(3)
  /\ moduleScratch # InitialScratch(shape)
  /\ held[3 - last.slot].unpacked
  /\ last.value[1]._ellipseGeometry._semiMajorAxis = Num(3)

====
